---- MODULE Spec2Model ----
(***************************************************************************)
(* A model of the womter analyzer (src/analyzer/src/analyzer.py): the text *)
(* normalizers, the rule compiler, the four condition evaluators, the row  *)
(* matcher and Analyzer.apply_patterns.                                    *)
(*                                                                         *)
(* A text is a sequence of characters; a character is a one-token string.  *)
(* "a_acute" and "A_acute" stand for the precomposed letters U+00E1 and    *)
(* U+00C1, "acute" for the combining mark U+0301.                          *)
(***************************************************************************)
EXTENDS Integers, Sequences, FiniteSets, TLC

VARIABLES
    call,               \* SpecEval: the evaluator call under test (function, arguments)
    ret,                \* SpecEval: what the call returned
    epc,                \* SpecEval: "idle" | "call" | "return"
    data,               \* apply_patterns argument: language -> sequence of rows
    patterns,           \* apply_patterns argument: rule name -> raw pattern
    processed_patterns, \* Analyzer.processed_patterns
    results,            \* Analyzer.results
    column_mapping,     \* Analyzer.column_mapping
    pc,                 \* position inside apply_patterns
    li, pi, ri,         \* loop positions: language, pattern, row
    matching_rows,      \* the local list of apply_patterns
    last,               \* the most recent _check_row_matches_pattern call and its outcome
    pending,            \* the (language, rule) pairs not evaluated yet, when the order is free
    input_files,        \* merger: the data files of the input directory, sorted by path
    data_frames,        \* merger DataReader.data_frames
    language_data,      \* merger DataReader.language_data
    combined_data,      \* merger DataReader.combined_data (<<>> for None)
    load_ok,            \* merger: what load_all_data returned
    written,            \* merger: the mapping main hands to DataWriter.write_to_excel
    fi,                 \* merger: position in the file loop of load_all_data
    mpc,                \* merger: position inside main / process_all_data
    pattern_files,      \* pattern reader: the rule files, in the order of _get_pattern_files
    reader_patterns,    \* PatternReader.patterns
    validation_results, \* pattern reader: the lines of the validation report
    pfi,                \* pattern reader: position in the file loop (0: not running)
    terms,              \* collect_tweets: settings.TERMS, language -> search terms
    amount_tweets,      \* collect_tweets: the number of tweets wanted per language
    rows,               \* collect_tweets: rows
    seen_ids,           \* collect_tweets: seen_ids
    count,              \* collect_tweets: count, language -> tweets kept
    pages,              \* collect_tweets: the responses of get_tweets so far, in fetch order
    clang,              \* collect_tweets: position in the language loop
    cpc,                \* collect_tweets: "idle" | "loop" | "done" | "raised"
    next_token,         \* collect_tweets: next_token ("none" for None)
    session_backup_file, \* src/src/writter.py: _session_backup_file ("none" for None)
    session_rows,       \* src/src/writter.py: _session_rows
    backup              \* the content of the backup file

evalVars == <<call, ret, epc>>
applyVars == <<data, patterns, processed_patterns, results, column_mapping,
               pc, li, pi, ri, matching_rows, last, pending>>
mergerVars == <<input_files, data_frames, language_data, combined_data, load_ok, written,
                fi, mpc>>
\* the variables outside the analyzer
patternVars == <<pattern_files, reader_patterns, validation_results, pfi>>
collectVars == <<terms, amount_tweets, rows, seen_ids, count, pages, clang, cpc, next_token,
                 session_backup_file, session_rows, backup>>
otherVars == <<mergerVars, patternVars, collectVars>>
vars == <<call, ret, epc, data, patterns, processed_patterns, results,
          column_mapping, pc, li, pi, ri, matching_rows, last, pending, otherVars>>

(***************************************************************************)
(* Bounds of the model.                                                    *)
(***************************************************************************)
MaxTextLen == 3
MaxPatterns == 2
MaxConds == 2
MaxRows == 2
MaxEnRows == 1
MaxSheetRows == 2
MaxRuleFiles == 2
MaxFill == 32
MaxColumns == 2
MaxTweets == 3
MaxFetches == 3
MaxValues == 2
MaxPairValues == 1

(***************************************************************************)
(* Characters.                                                             *)
(***************************************************************************)
Min(S) == CHOOSE x \in S : \A y \in S : x <= y
Max(S) == CHOOSE x \in S : \A y \in S : x >= y

Whitespace == {" "}

Digits == {"0", "1", "2", "3", "4", "5", "6", "7", "8", "9"}

DigitVal(c) ==
    CASE c = "0" -> 0 [] c = "1" -> 1 [] c = "2" -> 2 [] c = "3" -> 3 [] c = "4" -> 4
      [] c = "5" -> 5 [] c = "6" -> 6 [] c = "7" -> 7 [] c = "8" -> 8 [] c = "9" -> 9

DigitChar(n) ==
    CASE n = 0 -> "0" [] n = 1 -> "1" [] n = 2 -> "2" [] n = 3 -> "3" [] n = 4 -> "4"
      [] n = 5 -> "5" [] n = 6 -> "6" [] n = 7 -> "7" [] n = 8 -> "8" [] n = 9 -> "9"

\* unicodedata.combining(char) is non-zero
combining(c) == c = "acute"

\* unicodedata.normalize('NFD', ...) of one character
NFD_char(c) ==
    CASE c = "a_acute" -> <<"a", "acute">>
      [] c = "A_acute" -> <<"A", "acute">>
      [] OTHER -> <<c>>

\* the character class of re.sub(r'[.,!?;:()\[\]{}"\'-]', '', ...)
Symbols == {".", ",", "!", "?", ";", ":", "(", ")", "[", "]", "{", "}", "\"", "'", "-"}

\* str.lower() of one character
lower_char(c) ==
    CASE c = "A" -> "a" [] c = "B" -> "b" [] c = "C" -> "c" [] c = "D" -> "d"
      [] c = "E" -> "e" [] c = "F" -> "f" [] c = "I" -> "i" [] c = "N" -> "n"
      [] c = "O" -> "o" [] c = "R" -> "r" [] c = "S" -> "s" [] c = "T" -> "t"
      [] c = "U" -> "u" [] c = "V" -> "v" [] c = "W" -> "w" [] c = "Y" -> "y"
      [] c = "A_acute" -> "a_acute"
      [] OTHER -> c

(***************************************************************************)
(* Text helpers (Python str methods).                                      *)
(***************************************************************************)
\* str.strip()
strip(t) ==
    LET keep == {i \in 1..Len(t) : t[i] \notin Whitespace}
    IN  IF keep = {} THEN <<>> ELSE SubSeq(t, Min(keep), Max(keep))

\* str.lower()
lower(t) == [i \in 1..Len(t) |-> lower_char(t[i])]

RECURSIVE NFD(_)
NFD(t) == IF t = <<>> THEN <<>> ELSE NFD_char(Head(t)) \o NFD(Tail(t))

RECURSIVE Remove(_, _)
\* t without the characters of the set S
Remove(t, S) ==
    IF t = <<>> THEN <<>>
    ELSE IF Head(t) \in S THEN Remove(Tail(t), S)
    ELSE <<Head(t)>> \o Remove(Tail(t), S)

RECURSIVE RemoveCombining(_)
RemoveCombining(t) ==
    IF t = <<>> THEN <<>>
    ELSE IF combining(Head(t)) THEN RemoveCombining(Tail(t))
    ELSE <<Head(t)>> \o RemoveCombining(Tail(t))

\* x in y, for strings
IsSubstring(x, y) ==
    \E i \in 0..(Len(y) - Len(x)) : SubSeq(y, i + 1, i + Len(x)) = x

RECURSIVE SplitFrom(_, _, _)
\* str.split(): the maximal runs of non-whitespace characters, in order
SplitFrom(t, i, cur) ==
    IF i > Len(t) THEN (IF cur = <<>> THEN <<>> ELSE <<cur>>)
    ELSE IF t[i] \in Whitespace
         THEN (IF cur = <<>> THEN <<>> ELSE <<cur>>) \o SplitFrom(t, i + 1, <<>>)
         ELSE SplitFrom(t, i + 1, Append(cur, t[i]))

split(t) == SplitFrom(t, 1, <<>>)

Range(s) == {s[i] : i \in DOMAIN s}

RECURSIVE CollapseFrom(_, _, _)
\* re.sub(r'\s+', ' ', ...): every run of whitespace becomes one space
CollapseFrom(t, i, inRun) ==
    IF i > Len(t) THEN <<>>
    ELSE IF t[i] \in Whitespace
         THEN (IF inRun THEN <<>> ELSE <<" ">>) \o CollapseFrom(t, i + 1, TRUE)
         ELSE <<t[i]>> \o CollapseFrom(t, i + 1, FALSE)

RECURSIVE NatToText(_)
NatToText(n) == IF n < 10 THEN <<DigitChar(n)>> ELSE Append(NatToText(n \div 10), DigitChar(n % 10))

\* str(n) of an int
IntToText(n) == IF n < 0 THEN <<"-">> \o NatToText(-n) ELSE NatToText(n)

RECURSIVE DigitsToNat(_)
DigitsToNat(t) == IF t = <<>> THEN 0 ELSE 10 * DigitsToNat(SubSeq(t, 1, Len(t) - 1)) + DigitVal(t[Len(t)])

AllDigits(t) == t # <<>> /\ \A i \in 1..Len(t) : t[i] \in Digits

(***************************************************************************)
(* Python values: a cell of a row, or a raw value of a rule.  kind is      *)
(* "none" (None), "nan" (float NaN, what pandas stores for an empty cell), *)
(* "str", "int", "bool", "datetime" (datetime / pandas Timestamp: a day    *)
(* and an hour of the day) or "date" (datetime.date: not a datetime).      *)
(* A day is the integer year*10000 + month*100 + day.                      *)
(***************************************************************************)
Value(k, t, n, b, h) == [kind |-> k, txt |-> t, num |-> n, flag |-> b, tod |-> h]
NoneValue == Value("none", <<>>, 0, FALSE, 0)
NanValue == Value("nan", <<>>, 0, FALSE, 0)
StrValue(t) == Value("str", t, 0, FALSE, 0)
IntValue(n) == Value("int", <<>>, n, FALSE, 0)
BoolValue(b) == Value("bool", <<>>, 0, b, 0)
DatetimeValue(d, h) == Value("datetime", <<>>, d, FALSE, h)
DateValue(d) == Value("date", <<>>, d, FALSE, 0)
\* a cell that holds a list of two or more elements
ArrayValue == Value("array", <<>>, 0, FALSE, 0)

DateKey(y, m, d) == y * 10000 + m * 100 + d

\* not v
Falsy(v) ==
    CASE v.kind = "none" -> TRUE
      [] v.kind = "str" -> v.txt = <<>>
      [] v.kind = "int" -> v.num = 0
      [] v.kind = "bool" -> ~v.flag
      [] OTHER -> FALSE

Pad2(n) == <<DigitChar(n \div 10), DigitChar(n % 10)>>

DayText(d) ==
    Pad2(d \div 1000000) \o Pad2((d \div 10000) % 100) \o <<"-">>
        \o Pad2((d \div 100) % 100) \o <<"-">> \o Pad2(d % 100)

\* str(v)
str(v) ==
    CASE v.kind = "none" -> <<"N", "o", "n", "e">>
      [] v.kind = "nan" -> <<"n", "a", "n">>
      [] v.kind = "str" -> v.txt
      [] v.kind = "int" -> IntToText(v.num)
      [] v.kind = "bool" -> IF v.flag THEN <<"T", "r", "u", "e">> ELSE <<"F", "a", "l", "s", "e">>
      [] v.kind = "datetime" ->
            DayText(v.num) \o <<" ">> \o Pad2(v.tod) \o <<":", "0", "0", ":", "0", "0">>
      [] v.kind = "date" -> DayText(v.num)

\* pd.isna(v)
isna(v) == v.kind \in {"none", "nan"}

\* "if pd.isna(row_value):" raises ValueError: pd.isna of a list is an array of
\* booleans, which has no truth value
isna_raises(v) == v.kind = "array"

(***************************************************************************)
(* Analyzer: text normalization.                                           *)
(***************************************************************************)
normalize_text_for_comparison(text) ==
    IF Falsy(text) THEN <<>>
    ELSE LET text_str == strip(str(text))
             normalized == NFD(text_str)
             cleaned == Remove(RemoveCombining(normalized), Symbols)
         IN  lower(cleaned)

clean_pattern_text(text) ==
    IF Falsy(text) THEN <<>>
    ELSE Remove(strip(str(text)), Symbols)

T_tweet_id == <<"t", "w", "e", "e", "t", "_", "i", "d">>

\* the dict column_mappings, as (original, standard) pairs in the dict's order
column_mappings ==
    << <<(<<"t", "w", "e", "e", "t", " ", "i", "d">>), T_tweet_id>>,
       <<T_tweet_id, T_tweet_id>>,
       <<(<<"u", "s", "u", "a", "r", "i", "o", " ", "n", "o", "m", "b", "r", "e">>),
         (<<"u", "s", "u", "a", "r", "i", "o", "_", "n", "o", "m", "b", "r", "e">>)>>,
       <<(<<"u", "s", "u", "a", "r", "i", "o", " ", "g", "e", "n", "e", "r", "o">>),
         (<<"u", "s", "u", "a", "r", "i", "o", "_", "g", "e", "n", "e", "r", "o">>)>>,
       <<(<<"t", "i", "p", "o", " ", "d", "e", " ", "v", "e", "r", "i", "f", "i", "c", "a", "c", "i", "o", "n">>),
         (<<"t", "i", "p", "o", "_", "d", "e", "_", "v", "e", "r", "i", "f", "i", "c", "a", "c", "i", "o", "n">>)>>,
       <<(<<"p", "u", "b", "l", "i", "c", " ", "m", "e", "t", "r", "i", "c", "s", " ", "d", "u", "m", "p">>),
         (<<"p", "u", "b", "l", "i", "c", "_", "m", "e", "t", "r", "i", "c", "s", "_", "d", "u", "m", "p">>)>>,
       <<(<<"u", "s", "e", "r", " ", "d", "u", "m", "p">>),
         (<<"u", "s", "e", "r", "_", "d", "u", "m", "p">>)>>,
       <<(<<"t", "w", "e", "e", "t", " ", "d", "u", "m", "p">>),
         (<<"t", "w", "e", "e", "t", "_", "d", "u", "m", "p">>)>>,
       <<(<<"s", "o", "u", "r", "c", "e", " ", "f", "i", "l", "e">>),
         (<<"_", "s", "o", "u", "r", "c", "e", "_", "f", "i", "l", "e">>)>>,
       <<(<<"s", "o", "u", "r", "c", "e", " ", "p", "a", "t", "h">>),
         (<<"_", "s", "o", "u", "r", "c", "e", "_", "p", "a", "t", "h">>)>>,
       <<(<<"s", "h", "e", "e", "t", " ", "n", "a", "m", "e">>),
         (<<"_", "s", "h", "e", "e", "t", "_", "n", "a", "m", "e">>)>>,
       <<(<<"l", "a", "n", "g", "u", "a", "g", "e">>),
         (<<"_", "l", "a", "n", "g", "u", "a", "g", "e">>)>> >>

\* the normalizer with the lower() call left out
normalize_column_name_nolower(column_name) ==
    IF column_name = <<>> THEN <<>>
    ELSE LET normalized == strip(CollapseFrom(column_name, 1, FALSE))
             hits == {i \in 1..Len(column_mappings) : column_mappings[i][1] = normalized}
         IN  IF hits = {} THEN normalized ELSE column_mappings[Min(hits)][2]

normalize_column_name(column_name) ==
    IF column_name = <<>> THEN <<>>
    ELSE LET normalized == strip(CollapseFrom(lower(column_name), 1, FALSE))
             hits == {i \in 1..Len(column_mappings) : column_mappings[i][1] = normalized}
         IN  IF hits = {} THEN normalized ELSE column_mappings[Min(hits)][2]

(***************************************************************************)
(* Analyzer: the string evaluator.                                         *)
(***************************************************************************)
\* A similarity is the fraction num/den, kept exact.
Fraction(n, d) == [num |-> n, den |-> d]

\* f > 0.7
ExceedsThreshold(f) == 10 * f.num > 7 * f.den

calculate_similarity(text1, text2) ==
    IF text1 = <<>> \/ text2 = <<>> THEN Fraction(0, 1)
    ELSE LET words1 == Range(split(text1))
             words2 == Range(split(text2))
             intersection == Cardinality(words1 \cap words2)
             union == Cardinality(words1 \cup words2)
         IN  IF words1 = {} \/ words2 = {} THEN Fraction(0, 1)
             ELSE IF union = 0 THEN Fraction(0, 1)
             ELSE Fraction(intersection, union)

\* the test with the clause "row_str in normalized_pattern" left out
pattern_value_matches_oneway(normalized_pattern, row_str) ==
    \/ IsSubstring(normalized_pattern, row_str)
    \/ ExceedsThreshold(calculate_similarity(normalized_pattern, row_str))

\* the condition of the if inside the loop of _check_string_condition
pattern_value_matches(normalized_pattern, row_str) ==
    \/ IsSubstring(normalized_pattern, row_str)
    \/ IsSubstring(row_str, normalized_pattern)
    \/ ExceedsThreshold(calculate_similarity(normalized_pattern, row_str))

RECURSIVE string_loop(_, _, _)
\* for pattern_value in pattern_values: ... return True; return False
string_loop(row_str, pattern_values, i) ==
    IF i > Len(pattern_values) THEN FALSE
    ELSE LET normalized_pattern == normalize_text_for_comparison(StrValue(pattern_values[i]))
         IN  IF pattern_value_matches(normalized_pattern, row_str) THEN TRUE
             ELSE string_loop(row_str, pattern_values, i + 1)

\* the evaluator with a falsy cell (0, "", False) treated like a null one
check_string_condition_falsynull(row_value, pattern_values) ==
    IF isna(row_value) \/ Falsy(row_value) THEN FALSE
    ELSE string_loop(normalize_text_for_comparison(row_value), pattern_values, 1)

check_string_condition(row_value, pattern_values) ==
    IF isna(row_value) THEN FALSE
    ELSE string_loop(normalize_text_for_comparison(row_value), pattern_values, 1)

(***************************************************************************)
(* Analyzer: the numeric evaluator.  Numbers are integers; a float is      *)
(* [ok, nan, val]: ok is FALSE when float() raises ValueError or           *)
(* TypeError, nan is TRUE for float('nan').                                *)
(***************************************************************************)
Float(o, isnan, v) == [ok |-> o, nan |-> isnan, val |-> v]

\* float(t) of a string: optional blanks, an optional sign, decimal digits; or nan
ParseFloat(t) ==
    LET s == strip(t)
        signed == s # <<>> /\ s[1] \in {"-", "+"}
        body == IF signed THEN Tail(s) ELSE s
    IN  IF AllDigits(body)
        THEN Float(TRUE, FALSE, IF signed /\ s[1] = "-" THEN -DigitsToNat(body) ELSE DigitsToNat(body))
        ELSE IF lower(body) = <<"n", "a", "n">> THEN Float(TRUE, TRUE, 0)
        ELSE Float(FALSE, FALSE, 0)

\* float(v)
float(v) ==
    CASE v.kind = "int" -> Float(TRUE, FALSE, v.num)
      [] v.kind = "bool" -> Float(TRUE, FALSE, IF v.flag THEN 1 ELSE 0)
      [] v.kind = "nan" -> Float(TRUE, TRUE, 0)
      [] v.kind = "str" -> ParseFloat(v.txt)
      [] OTHER -> Float(FALSE, FALSE, 0)

\* the comparison with > read as >=
numeric_condition_holds_ge(condition, row_num) ==
    /\ ~row_num.nan
    /\ \/ condition.operator = "=" /\ row_num.val = condition.value
       \/ condition.operator = ">" /\ row_num.val >= condition.value
       \/ condition.operator = "<" /\ row_num.val < condition.value

\* the if / elif chain inside the loop of _check_numeric_condition
numeric_condition_holds(condition, row_num) ==
    /\ ~row_num.nan
    /\ \/ condition.operator = "=" /\ row_num.val = condition.value
       \/ condition.operator = ">" /\ row_num.val > condition.value
       \/ condition.operator = "<" /\ row_num.val < condition.value

RECURSIVE numeric_loop(_, _, _)
numeric_loop(row_num, pattern_conditions, i) ==
    IF i > Len(pattern_conditions) THEN FALSE
    ELSE IF numeric_condition_holds(pattern_conditions[i], row_num) THEN TRUE
    ELSE numeric_loop(row_num, pattern_conditions, i + 1)

check_numeric_condition(row_value, pattern_conditions) ==
    IF isna(row_value) THEN FALSE
    ELSE LET row_num == float(row_value)
         IN  IF ~row_num.ok THEN FALSE
             ELSE numeric_loop(row_num, pattern_conditions, 1)

(***************************************************************************)
(* Analyzer: the date evaluator.  A datetime is [day, tod].                *)
(***************************************************************************)
Datetime(d, h) == [day |-> d, tod |-> h]

DatetimeLess(x, y) == x.day < y.day \/ (x.day = y.day /\ x.tod < y.tod)

IsLeap(y) == (y % 4 = 0 /\ y % 100 # 0) \/ y % 400 = 0

DaysInMonth(y, m) ==
    IF m = 2 THEN (IF IsLeap(y) THEN 29 ELSE 28)
    ELSE IF m \in {4, 6, 9, 11} THEN 30 ELSE 31

\* datetime.strptime(t, '%Y-%m-%d'): [ok, value]; ok is FALSE for ValueError
strptime(t) ==
    LET dashes == {i \in 1..Len(t) : t[i] = "-"}
        d1 == Min(dashes)
        d2 == Max(dashes)
        Y == SubSeq(t, 1, d1 - 1)
        M == SubSeq(t, d1 + 1, d2 - 1)
        D == SubSeq(t, d2 + 1, Len(t))
        bad == [ok |-> FALSE, value |-> Datetime(0, 0)]
    IN  IF Cardinality(dashes) # 2 THEN bad
        ELSE IF ~(AllDigits(Y) /\ Len(Y) = 4 /\ AllDigits(M) /\ Len(M) <= 2
                  /\ AllDigits(D) /\ Len(D) <= 2) THEN bad
        ELSE LET y == DigitsToNat(Y)
                 m == DigitsToNat(M)
                 d == DigitsToNat(D)
             IN  IF y >= 1 /\ m \in 1..12 /\ d >= 1 /\ d <= DaysInMonth(y, m)
                 THEN [ok |-> TRUE, value |-> Datetime(DateKey(y, m, d), 0)]
                 ELSE bad

\* the if / elif chain inside the loop of _check_date_condition
date_condition_holds(condition, row_date) ==
    \/ condition.operator = "=" /\ row_date = condition.value
    \/ condition.operator = ">" /\ DatetimeLess(condition.value, row_date)
    \/ condition.operator = "<" /\ DatetimeLess(row_date, condition.value)

RECURSIVE date_loop(_, _, _)
date_loop(row_date, pattern_conditions, i) ==
    IF i > Len(pattern_conditions) THEN FALSE
    ELSE IF date_condition_holds(pattern_conditions[i], row_date) THEN TRUE
    ELSE date_loop(row_date, pattern_conditions, i + 1)

check_date_condition(row_value, pattern_conditions) ==
    IF isna(row_value) THEN FALSE
    ELSE IF row_value.kind = "str"
         THEN LET parsed == strptime(row_value.txt)
              IN  IF ~parsed.ok THEN FALSE
                  ELSE date_loop(parsed.value, pattern_conditions, 1)
    ELSE IF row_value.kind = "datetime"
         THEN date_loop(Datetime(row_value.num, row_value.tod), pattern_conditions, 1)
    ELSE FALSE

(***************************************************************************)
(* Analyzer: the boolean evaluator.                                        *)
(***************************************************************************)
TrueWords ==
    { <<"t", "r", "u", "e">>, <<"1">>, <<"y", "e", "s">>,
      <<"v", "e", "r", "d", "a", "d", "e", "r", "o">> }

\* the coercion with the lower() call left out
coerce_bool_nolower(row_value) ==
    CASE row_value.kind = "bool" -> [ok |-> TRUE, value |-> row_value.flag]
      [] row_value.kind = "str" -> [ok |-> TRUE, value |-> row_value.txt \in TrueWords]
      [] row_value.kind = "int" -> [ok |-> TRUE, value |-> row_value.num # 0]
      [] OTHER -> [ok |-> FALSE, value |-> FALSE]

\* the isinstance chain of _check_boolean_condition: [ok, value], ok FALSE for "return False"
coerce_bool(row_value) ==
    CASE row_value.kind = "bool" -> [ok |-> TRUE, value |-> row_value.flag]
      [] row_value.kind = "str" -> [ok |-> TRUE, value |-> lower(row_value.txt) \in TrueWords]
      [] row_value.kind = "int" -> [ok |-> TRUE, value |-> row_value.num # 0]
      [] OTHER -> [ok |-> FALSE, value |-> FALSE]

check_boolean_condition(row_value, pattern_values) ==
    IF isna(row_value) THEN FALSE
    ELSE LET row_bool == coerce_bool(row_value)
         IN  IF ~row_bool.ok THEN FALSE
             ELSE \E i \in 1..Len(pattern_values) : pattern_values[i] = row_bool.value

(***************************************************************************)
(* SpecEval: one call of a normalizer or of an evaluator, the arguments    *)
(* drawn from bounded sets.                                                *)
(***************************************************************************)
TextsUpTo(S, n) == UNION {[1..k -> S] : k \in 0..n}

SeqsUpTo(S, n) == UNION {[1..k -> S] : k \in 0..n}

NormChars == {"a", "A", "a_acute", "acute", " ", "."}

CondChars == {"a", "b", " ", "."}

T_b_a_ab == <<"b", " ", "a", " ", "a", "b">>
T_ab_a_b_ba == <<"a", "b", " ", "a", " ", "b", " ", "b", "a">>

\* patterns of a string rule: "", "a", "a b", "Á", "b. a", "b a ab"
PatternTexts ==
    { <<>>, <<"a">>, <<"a", " ", "b">>, <<"A_acute">>, <<"b", ".", " ", "a">>, T_b_a_ab }

MaxNum == 2
MaxHour == 1

Operators == {"<", ">", "="}

D_2023_12_31 == <<"2", "0", "2", "3", "-", "1", "2", "-", "3", "1">>
D_2024_01_01 == <<"2", "0", "2", "4", "-", "0", "1", "-", "0", "1">>
D_2024_06_15 == <<"2", "0", "2", "4", "-", "0", "6", "-", "1", "5">>
D_2024_02_30 == <<"2", "0", "2", "4", "-", "0", "2", "-", "3", "0">>
T_n_a == <<"n", "/", "a">>

Days == {DateKey(2023, 12, 31), DateKey(2024, 1, 1), DateKey(2024, 6, 15)}

NumericCells ==
    {NoneValue, NanValue, BoolValue(TRUE), DatetimeValue(DateKey(2024, 1, 1), 0)}
        \cup {IntValue(n) : n \in -1..MaxNum}
        \cup {StrValue(t) : t \in {<<>>, <<"1">>, <<" ", "2">>, <<"-", "1">>, T_n_a,
                                   <<"n", "a", "n">>, <<"1", "a">>}}

DateCells ==
    {NoneValue, NanValue, IntValue(20240101)}
        \cup {StrValue(t) : t \in {D_2023_12_31, D_2024_01_01, D_2024_06_15, D_2024_02_30, T_n_a}}
        \cup {DatetimeValue(d, h) : d \in Days, h \in 0..MaxHour}
        \cup {DateValue(d) : d \in Days}

BooleanCells ==
    {NoneValue, NanValue, BoolValue(TRUE), BoolValue(FALSE),
     DatetimeValue(DateKey(2024, 1, 1), 0)}
        \cup {IntValue(n) : n \in -1..MaxNum}
        \cup {StrValue(t) : t \in TrueWords \cup
                {<<>>, <<"T", "R", "U", "E">>, <<"Y", "e", "s">>, <<"n", "o">>,
                 <<"0">>, <<" ", "1">>, <<"f", "a", "l", "s", "e">>}}

\* "ab a b ba" shares 3 of 4 words with "b a ab"; "a b" shares 2 of 3
StringCells ==
    {NoneValue, NanValue, IntValue(0), IntValue(12), BoolValue(TRUE), StrValue(T_ab_a_b_ba)}
        \cup {StrValue(t) : t \in TextsUpTo(CondChars, MaxTextLen)}

NormalizeInputs ==
    {NoneValue, IntValue(0), IntValue(-12), BoolValue(TRUE), BoolValue(FALSE),
     DatetimeValue(DateKey(2024, 1, 1), 0)}
        \cup {StrValue(t) : t \in TextsUpTo(NormChars, MaxTextLen)}

Call(f, c, t, k, b) == [fn |-> f, cell |-> c, texts |-> t, conds |-> k, bools |-> b]

\* the calls of SpecEval: every evaluator with every argument of its bounded sets
IsCall(c) ==
    \/ \E v \in NormalizeInputs :
          c = Call("normalize_text_for_comparison", v, <<>>, <<>>, <<>>)
    \/ \E v \in StringCells, t \in SeqsUpTo(PatternTexts, MaxPatterns) :
          c = Call("check_string_condition", v, t, <<>>, <<>>)
    \/ \E v \in NumericCells,
          k \in SeqsUpTo([operator : Operators, value : 0..MaxNum], MaxConds) :
          c = Call("check_numeric_condition", v, <<>>, k, <<>>)
    \/ \E v \in DateCells,
          k \in SeqsUpTo({[operator |-> o, value |-> Datetime(d, 0)] :
                              o \in Operators, d \in Days \ {DateKey(2023, 12, 31)}},
                         MaxConds) :
          c = Call("check_date_condition", v, <<>>, k, <<>>)
    \/ \E v \in BooleanCells, b \in SeqsUpTo(BOOLEAN, MaxPatterns) :
          c = Call("check_boolean_condition", v, <<>>, <<>>, b)

Ret(b, t, p) == [bool |-> b, text |-> t, prev |-> p]

NoCall == Call("none", NoneValue, <<>>, <<>>, <<>>)

EvalIdle ==
    /\ call = NoCall
    /\ ret = Ret(FALSE, <<>>, <<>>)
    /\ epc = "idle"

ApplyIdle ==
    /\ data = <<>>
    /\ patterns = <<>>
    /\ processed_patterns = <<>>
    /\ results = <<>>
    /\ column_mapping = <<>>
    /\ pc = "idle"
    /\ li = 0
    /\ pi = 0
    /\ ri = 0
    /\ matching_rows = <<>>
    /\ last = [called |-> FALSE, row |-> <<>>, pattern_name |-> "", ret |-> FALSE,
               missing |-> <<>>, raised |-> FALSE]
    /\ pending = {}

MergerIdle ==
    /\ input_files = <<>>
    /\ data_frames = <<>>
    /\ language_data = <<>>
    /\ combined_data = <<>>
    /\ load_ok = FALSE
    /\ written = <<>>
    /\ fi = 0
    /\ mpc = "idle"

PatternReaderIdle ==
    /\ pattern_files = <<>>
    /\ reader_patterns = <<>>
    /\ validation_results = <<>>
    /\ pfi = 0

CollectIdle ==
    /\ terms = <<>>
    /\ amount_tweets = 0
    /\ rows = <<>>
    /\ seen_ids = {}
    /\ count = <<>>
    /\ pages = <<>>
    /\ clang = 0
    /\ cpc = "idle"
    /\ next_token = "none"
    /\ session_backup_file = "none"
    /\ session_rows = <<>>
    /\ backup = <<>>

OthersIdle == MergerIdle /\ PatternReaderIdle /\ CollectIdle

EvalInit ==
    /\ IsCall(call)
    /\ ret = Ret(FALSE, <<>>, <<>>)
    /\ epc = "call"
    /\ ApplyIdle
    /\ OthersIdle

Normalize ==
    /\ epc = "call"
    /\ call.fn = "normalize_text_for_comparison"
    /\ ret' = Ret(FALSE, normalize_text_for_comparison(call.cell), <<>>)
    /\ epc' = "return"
    /\ UNCHANGED <<call, applyVars, otherVars>>

\* the normalizer applied to its own result
NormalizeAgain ==
    /\ epc = "return"
    /\ call.fn = "normalize_text_for_comparison"
    /\ ret' = Ret(FALSE, normalize_text_for_comparison(StrValue(ret.text)), ret.text)
    /\ epc' = "again"
    /\ UNCHANGED <<call, applyVars, otherVars>>

CheckString ==
    /\ epc = "call"
    /\ call.fn = "check_string_condition"
    /\ ret' = Ret(check_string_condition(call.cell, call.texts), <<>>, <<>>)
    /\ epc' = "return"
    /\ UNCHANGED <<call, applyVars, otherVars>>

CheckNumeric ==
    /\ epc = "call"
    /\ call.fn = "check_numeric_condition"
    /\ ret' = Ret(check_numeric_condition(call.cell, call.conds), <<>>, <<>>)
    /\ epc' = "return"
    /\ UNCHANGED <<call, applyVars, otherVars>>

CheckDate ==
    /\ epc = "call"
    /\ call.fn = "check_date_condition"
    /\ ret' = Ret(check_date_condition(call.cell, call.conds), <<>>, <<>>)
    /\ epc' = "return"
    /\ UNCHANGED <<call, applyVars, otherVars>>

CheckBoolean ==
    /\ epc = "call"
    /\ call.fn = "check_boolean_condition"
    /\ ret' = Ret(check_boolean_condition(call.cell, call.bools), <<>>, <<>>)
    /\ epc' = "return"
    /\ UNCHANGED <<call, applyVars, otherVars>>

EvalNext ==
    \/ Normalize
    \/ NormalizeAgain
    \/ CheckString
    \/ CheckNumeric
    \/ CheckDate
    \/ CheckBoolean

SpecEval == EvalInit /\ [][EvalNext]_vars

Returned(f) == epc = "return" /\ call.fn = f

(***************************************************************************)
(* Analyzer: the rule compiler.  A dict is a sequence of [key, value]      *)
(* entries in insertion order; a raw pattern is the dict column name ->    *)
(* list of raw values.                                                     *)
(***************************************************************************)
Entry(k, v) == [key |-> k, value |-> v]

Keys(d) == {d[i].key : i \in 1..Len(d)}

\* d[k] = v: the value of an existing key is replaced in place, a new key goes last
DictSet(d, k, v) ==
    IF k \in Keys(d)
    THEN [i \in 1..Len(d) |-> IF d[i].key = k THEN Entry(k, v) ELSE d[i]]
    ELSE Append(d, Entry(k, v))

DictGet(d, k) == d[CHOOSE i \in 1..Len(d) : d[i].key = k].value

\* re.match(r'^[<>=]\d+', value)
is_numeric_field(value) ==
    Len(value) >= 2 /\ value[1] \in Operators /\ value[2] \in Digits

\* re.match(r'^[<>=]\d{4}-\d{2}-\d{2}', value)
is_date_field(value) ==
    /\ Len(value) >= 11
    /\ value[1] \in Operators
    /\ \A i \in {2, 3, 4, 5, 7, 8, 10, 11} : value[i] \in Digits
    /\ value[6] = "-"
    /\ value[9] = "-"

is_boolean_field(values) ==
    IF values = <<>> THEN FALSE
    ELSE \A i \in 1..Len(values) : values[i].kind = "bool"

\* re.match(r'^([<>=])(.+)$', str(value))
has_operator(t) == Len(t) >= 2 /\ t[1] \in Operators

RECURSIVE process_numeric_values_stop(_)
\* the loop left at the first value that cannot be parsed
process_numeric_values_stop(values) ==
    IF values = <<>> THEN <<>>
    ELSE LET value == Head(values)
             t == str(value)
             parsed == IF has_operator(t) THEN ParseFloat(Tail(t)) ELSE float(value)
             operator == IF has_operator(t) THEN t[1] ELSE "="
         IN  IF parsed.ok
             THEN <<[operator |-> operator, value |-> parsed.val]>>
                      \o process_numeric_values_stop(Tail(values))
             ELSE <<>>

RECURSIVE process_numeric_values(_)
\* the compiled conditions keep 'operator' and 'value'; 'original' is never read
process_numeric_values(values) ==
    IF values = <<>> THEN <<>>
    ELSE LET value == Head(values)
             t == str(value)
             parsed == IF has_operator(t) THEN ParseFloat(Tail(t)) ELSE float(value)
             operator == IF has_operator(t) THEN t[1] ELSE "="
         IN  (IF parsed.ok THEN <<[operator |-> operator, value |-> parsed.val]>> ELSE <<>>)
                 \o process_numeric_values(Tail(values))

RECURSIVE process_date_values(_)
process_date_values(values) ==
    IF values = <<>> THEN <<>>
    ELSE LET value == Head(values)
             t == str(value)
             parsed == IF has_operator(t) THEN strptime(Tail(t))
                       ELSE IF value.kind = "str" THEN strptime(value.txt)
                       ELSE [ok |-> FALSE, value |-> Datetime(0, 0)]
             operator == IF has_operator(t) THEN t[1] ELSE "="
         IN  (IF parsed.ok THEN <<[operator |-> operator, value |-> parsed.value]>> ELSE <<>>)
                 \o process_date_values(Tail(values))

Processed(s, n, d, b) ==
    [string_fields |-> s, numeric_fields |-> n, date_fields |-> d, boolean_fields |-> b]

\* one pass of "for column_name, values in pattern_data.items()" with the
\* "if not values: continue" left out: an empty list becomes a string field
process_column_noskip(processed_pattern, column_name, values) ==
    LET normalized_column_name == normalize_column_name(column_name)
    IN  IF values # <<>> /\ is_date_field(str(values[1]))
        THEN [processed_pattern EXCEPT !.date_fields =
                DictSet(@, normalized_column_name, process_date_values(values))]
        ELSE IF values # <<>> /\ is_numeric_field(str(values[1]))
        THEN [processed_pattern EXCEPT !.numeric_fields =
                DictSet(@, normalized_column_name, process_numeric_values(values))]
        ELSE IF is_boolean_field(values)
        THEN [processed_pattern EXCEPT !.boolean_fields =
                DictSet(@, normalized_column_name, [i \in 1..Len(values) |-> values[i].flag])]
        ELSE [processed_pattern EXCEPT !.string_fields =
                DictSet(@, normalized_column_name,
                        [i \in 1..Len(values) |-> clean_pattern_text(values[i])])]

\* the pass with the numeric test made before the date test
process_column_numericfirst(processed_pattern, column_name, values) ==
    IF values = <<>> THEN processed_pattern
    ELSE LET normalized_column_name == normalize_column_name(column_name)
             first_value == str(values[1])
         IN  IF is_numeric_field(first_value)
             THEN [processed_pattern EXCEPT !.numeric_fields =
                     DictSet(@, normalized_column_name, process_numeric_values(values))]
             ELSE IF is_date_field(first_value)
             THEN [processed_pattern EXCEPT !.date_fields =
                     DictSet(@, normalized_column_name, process_date_values(values))]
             ELSE IF is_boolean_field(values)
             THEN [processed_pattern EXCEPT !.boolean_fields =
                     DictSet(@, normalized_column_name, [i \in 1..Len(values) |-> values[i].flag])]
             ELSE [processed_pattern EXCEPT !.string_fields =
                     DictSet(@, normalized_column_name,
                             [i \in 1..Len(values) |-> clean_pattern_text(values[i])])]

\* one pass of "for column_name, values in pattern_data.items()"
process_column(processed_pattern, column_name, values) ==
    IF values = <<>> THEN processed_pattern
    ELSE LET normalized_column_name == normalize_column_name(column_name)
             first_value == str(values[1])
         IN  IF is_date_field(first_value)
             THEN [processed_pattern EXCEPT !.date_fields =
                     DictSet(@, normalized_column_name, process_date_values(values))]
             ELSE IF is_numeric_field(first_value)
             THEN [processed_pattern EXCEPT !.numeric_fields =
                     DictSet(@, normalized_column_name, process_numeric_values(values))]
             ELSE IF is_boolean_field(values)
             THEN [processed_pattern EXCEPT !.boolean_fields =
                     DictSet(@, normalized_column_name, [i \in 1..Len(values) |-> values[i].flag])]
             ELSE [processed_pattern EXCEPT !.string_fields =
                     DictSet(@, normalized_column_name,
                             [i \in 1..Len(values) |-> clean_pattern_text(values[i])])]

RECURSIVE process_pattern(_, _, _)
\* the compiled form of one raw pattern, columns i.. still to go
process_pattern(pattern_data, i, processed_pattern) ==
    IF i > Len(pattern_data) THEN processed_pattern
    ELSE process_pattern(pattern_data, i + 1,
            process_column(processed_pattern, pattern_data[i].key, pattern_data[i].value))

RECURSIVE process_patterns(_, _, _)
\* self.processed_patterns after _process_patterns(pats), rules i.. still to go
process_patterns(pats, i, processed) ==
    IF i > Len(pats) THEN processed
    ELSE process_patterns(pats, i + 1,
            DictSet(processed, pats[i].key,
                    process_pattern(pats[i].value, 1, Processed(<<>>, <<>>, <<>>, <<>>))))

(***************************************************************************)
(* Analyzer: the row matcher.  A row is a sequence of [key, value]         *)
(* entries: column label -> cell, in the order of row.index.               *)
(***************************************************************************)
\* the position in the row of the first column whose normalized label equals the
\* normalized column_name; 0 for None
find_column_case_insensitive(column_name, row) ==
    LET normalized_pattern_col == normalize_column_name(column_name)
        hits == {i \in 1..Len(row) : normalize_column_name(row[i].key) = normalized_pattern_col}
    IN  IF hits = {} THEN 0 ELSE Min(hits)

\* the conditions of the four buckets in the order the four loops visit them
BucketEntries(pattern) ==
    [i \in 1..Len(pattern.string_fields) |->
        [bucket |-> "string", column |-> pattern.string_fields[i].key,
         conds |-> pattern.string_fields[i].value]]
    \o [i \in 1..Len(pattern.numeric_fields) |->
        [bucket |-> "numeric", column |-> pattern.numeric_fields[i].key,
         conds |-> pattern.numeric_fields[i].value]]
    \o [i \in 1..Len(pattern.date_fields) |->
        [bucket |-> "date", column |-> pattern.date_fields[i].key,
         conds |-> pattern.date_fields[i].value]]
    \o [i \in 1..Len(pattern.boolean_fields) |->
        [bucket |-> "boolean", column |-> pattern.boolean_fields[i].key,
         conds |-> pattern.boolean_fields[i].value]]

\* the evaluator of the bucket applied to a cell
check_condition(bucket, row_value, conds) ==
    CASE bucket = "string" -> check_string_condition(row_value, conds)
      [] bucket = "numeric" -> check_numeric_condition(row_value, conds)
      [] bucket = "date" -> check_date_condition(row_value, conds)
      [] bucket = "boolean" -> check_boolean_condition(row_value, conds)

Outcome(r, m) == [ret |-> r, missing |-> m, raised |-> FALSE]

\* the call left by an exception of an evaluator
Raised == [ret |-> FALSE, missing |-> <<>>, raised |-> TRUE]

RECURSIVE check_columns_skipmissing(_, _, _, _, _)
\* the loops with a column that is not found skipped and not counted
check_columns_skipmissing(row, entries, i, matched_columns, total_columns) ==
    IF i > Len(entries) THEN Outcome(Cardinality(matched_columns) = total_columns, <<>>)
    ELSE LET actual_column == find_column_case_insensitive(entries[i].column, row)
         IN  IF actual_column = 0
             THEN check_columns_skipmissing(row, entries, i + 1, matched_columns, total_columns)
             ELSE IF isna_raises(row[actual_column].value) THEN Raised
             ELSE check_columns_skipmissing(row, entries, i + 1,
                    IF check_condition(entries[i].bucket, row[actual_column].value, entries[i].conds)
                    THEN matched_columns \cup {entries[i].column}
                    ELSE matched_columns,
                    total_columns + 1)

RECURSIVE check_columns(_, _, _, _, _)
\* the four loops of _check_row_matches_pattern from entry i on, and its last line;
\* missing holds the column that took the "not found" return, if one did
check_columns(row, entries, i, matched_columns, total_columns) ==
    IF i > Len(entries) THEN Outcome(Cardinality(matched_columns) = total_columns, <<>>)
    ELSE LET actual_column == find_column_case_insensitive(entries[i].column, row)
         IN  IF actual_column = 0 THEN Outcome(FALSE, <<entries[i].column>>)
             ELSE IF isna_raises(row[actual_column].value) THEN Raised
             ELSE check_columns(row, entries, i + 1,
                    IF check_condition(entries[i].bucket, row[actual_column].value, entries[i].conds)
                    THEN matched_columns \cup {entries[i].column}
                    ELSE matched_columns,
                    total_columns + 1)

check_row_matches_pattern(row, pattern_name, processed) ==
    IF pattern_name \notin Keys(processed) THEN Outcome(FALSE, <<>>)
    ELSE check_columns(row, BucketEntries(DictGet(processed, pattern_name)), 1, {}, 0)

(***************************************************************************)
(* Analyzer.apply_patterns, one row per step.  The arguments: two language *)
(* partitions with different schemas and two rules drawn from a pool.      *)
(***************************************************************************)
T_f_o == <<"f", " ", "o">>
T_F_o == <<"F", " ", "o">>
T_F__O == <<"F", " ", " ", "O">>
T_n == <<"n">>
T_N == <<"N">>
T_da == <<"d", "a">>
T_d_acute == <<"d", "a_acute">>
T_v == <<"v">>
T_V == <<"V">>
T_zz == <<"z", "z">>
T_tweet_sp_id == <<"t", "w", "e", "e", "t", " ", "i", "d">>

\* rows of the partition "es": columns "f o", "N", "da", "v", "tweet_id"
EsRow(f, n, d, v, t) ==
    <<Entry(T_f_o, f), Entry(T_N, n), Entry(T_da, d), Entry(T_v, v), Entry(T_tweet_id, t)>>

EsRows ==
    { EsRow(StrValue(<<"a", " ", "b">>), IntValue(2), StrValue(D_2024_06_15),
            BoolValue(TRUE), IntValue(7)),
      EsRow(StrValue(<<"b">>), IntValue(0), DatetimeValue(DateKey(2024, 1, 1), 1),
            StrValue(<<"n", "o">>), NanValue),
      EsRow(NanValue, StrValue(T_n_a), StrValue(D_2023_12_31), BoolValue(FALSE), IntValue(0)),
      EsRow(StrValue(<<"a">>), ArrayValue, NanValue, BoolValue(TRUE), IntValue(7)) }

\* rows of the partition "en": columns "F o" and "dá"
EnRow(f, d) == <<Entry(T_F_o, f), Entry(T_d_acute, d)>>

EnRows ==
    { EnRow(StrValue(<<"A_acute">>), StrValue(D_2024_06_15)),
      EnRow(StrValue(<<"b">>), NanValue) }

\* {}
P_empty == <<>>

\* {"f o": [], "zz": []}
P_emptyvals == <<Entry(T_f_o, <<>>), Entry(T_zz, <<>>)>>

\* {"F  O": ["a"]}
P_str == <<Entry(T_F__O, <<StrValue(<<"a">>)>>)>>

\* {"f o": ["a", "b"], "n": [">1", "=0"]}
P_strnum ==
    <<Entry(T_f_o, <<StrValue(<<"a">>), StrValue(<<"b">>)>>),
      Entry(T_n, <<StrValue(<<">", "1">>), StrValue(<<"=", "0">>)>>)>>

\* {"da": [">2024-01-01"]}
P_date == <<Entry(T_da, <<StrValue(<<">">> \o D_2024_01_01)>>)>>

\* {"dá": ["=2024-06-15"]}
P_dateacc == <<Entry(T_d_acute, <<StrValue(<<"=">> \o D_2024_06_15)>>)>>

\* {"V": [true]}
P_bool == <<Entry(T_V, <<BoolValue(TRUE)>>)>>

\* {"tweet id": ["7"], "tweet_id": [">0"]}
P_dup ==
    <<Entry(T_tweet_sp_id, <<StrValue(<<"7">>)>>),
      Entry(T_tweet_id, <<StrValue(<<">", "0">>)>>)>>

RawPatterns == {P_empty, P_emptyvals, P_str, P_strnum, P_date, P_dateacc, P_bool, P_dup}

\* the pool of the second rule
SecondPatterns == {P_empty, P_strnum}

NoLast ==
    [called |-> FALSE, row |-> <<>>, pattern_name |-> "", ret |-> FALSE, missing |-> <<>>,
     raised |-> FALSE]

Init ==
    /\ EvalIdle
    /\ OthersIdle
    /\ \E es \in SeqsUpTo(EsRows, MaxRows), en \in SeqsUpTo(EnRows, MaxEnRows) :
          data = <<Entry("es", es), Entry("en", en)>>
    /\ \E p1 \in RawPatterns, p2 \in SecondPatterns :
          patterns = <<Entry("r1", p1), Entry("r2", p2)>>
    /\ processed_patterns = <<>>
    /\ results = <<>>
    /\ column_mapping = <<>>
    /\ pc = "start"
    /\ li = 0
    /\ pi = 0
    /\ ri = 0
    /\ matching_rows = <<>>
    /\ last = NoLast
    /\ pending = {}

RECURSIVE build_column_mapping(_, _, _)
\* self.column_mapping after the "Track column mapping" loop, rules i.. still to go
build_column_mapping(pats, i, mapping) ==
    IF i > Len(pats) THEN mapping
    ELSE build_column_mapping(pats, i + 1,
            DictSet(mapping, pats[i].key,
                    [j \in 1..Len(pats[i].value) |-> normalize_column_name(pats[i].value[j].key)]))

\* the list kept from the previous (language, rule) pair
stale_matching_rows(previous) == previous

\* matching_rows = []
fresh_matching_rows(previous) == <<>>

\* the except clause taken as if the row had matched
row_is_appended_onerror(outcome) == outcome.raised \/ outcome.ret

\* "try: if self._check_row_matches_pattern(row, pattern_name): matching_rows.append(row)
\*  except Exception: ... continue"
row_is_appended(outcome) == ~outcome.raised /\ outcome.ret

\* the rule's dict replaced by one that holds the pair alone
store_results_overwrite(res, pattern_name, language, result_df) ==
    IF result_df # <<>>
    THEN DictSet(res, pattern_name, <<Entry(language, result_df)>>)
    ELSE res

\* the pair stored whatever the list holds
store_results_always(res, pattern_name, language, result_df) ==
    DictSet(res, pattern_name, DictSet(DictGet(res, pattern_name), language, result_df))

\* "if matching_rows: self.results[pattern_name][language] = pd.DataFrame(matching_rows)"
store_results(res, pattern_name, language, result_df) ==
    IF result_df # <<>>
    THEN DictSet(res, pattern_name, DictSet(DictGet(res, pattern_name), language, result_df))
    ELSE res

\* the statements of apply_patterns before its loops
Start ==
    /\ pc = "start"
    /\ processed_patterns' = process_patterns(patterns, 1, processed_patterns)
    /\ results' = [i \in 1..Len(patterns) |-> Entry(patterns[i].key, <<>>)]
    /\ column_mapping' = build_column_mapping(patterns, 1, column_mapping)
    /\ li' = 1
    /\ pi' = 1
    /\ ri' = 1
    /\ matching_rows' = fresh_matching_rows(matching_rows)
    /\ pc' = "rows"
    /\ UNCHANGED <<data, patterns, last, pending, evalVars, otherVars>>

\* one pass of "for idx, row in df.iterrows()"
CheckRow ==
    /\ pc = "rows"
    /\ ri <= Len(data[li].value)
    /\ LET row == data[li].value[ri]
           pattern_name == patterns[pi].key
           outcome == check_row_matches_pattern(row, pattern_name, processed_patterns)
       IN  /\ matching_rows' = IF row_is_appended(outcome) THEN Append(matching_rows, row)
                               ELSE matching_rows
           /\ last' = [called |-> TRUE, row |-> row, pattern_name |-> pattern_name,
                       ret |-> outcome.ret, missing |-> outcome.missing,
                       raised |-> outcome.raised]
    /\ ri' = ri + 1
    /\ UNCHANGED <<data, patterns, processed_patterns, results, column_mapping, pc, li, pi,
                   pending, evalVars, otherVars>>

\* "Store results" for one (language, rule) pair, then the next pair or the return
StoreResults ==
    /\ pc = "rows"
    /\ ri > Len(data[li].value)
    /\ LET language == data[li].key
           pattern_name == patterns[pi].key
       IN  results' = store_results(results, pattern_name, language, matching_rows)
    /\ matching_rows' = fresh_matching_rows(matching_rows)
    /\ ri' = 1
    /\ IF pi < Len(patterns) THEN pi' = pi + 1 /\ li' = li /\ pc' = pc
       ELSE IF li < Len(data) THEN pi' = 1 /\ li' = li + 1 /\ pc' = pc
       ELSE pi' = pi /\ li' = li /\ pc' = "done"
    /\ UNCHANGED <<data, patterns, processed_patterns, column_mapping, last, pending, evalVars,
                   otherVars>>

Next ==
    \/ Start
    \/ CheckRow
    \/ StoreResults

Spec == Init /\ [][Next]_vars

(***************************************************************************)
(* Analyzer._process_patterns alone: one rule is compiled, its columns and *)
(* raw values drawn from bounded sets.                                     *)
(***************************************************************************)
\* raw values: ">1", "2", ">1x", "a.", ">2024-01-01", "=2024-02-30", "2024-06-15",
\* true and the number 1
RawTokens ==
    { StrValue(<<">", "1">>), StrValue(<<"2">>), StrValue(<<">", "1", "x">>),
      StrValue(<<"a", ".">>), StrValue(<<">">> \o D_2024_01_01),
      StrValue(<<"=">> \o D_2024_02_30), StrValue(D_2024_06_15),
      BoolValue(TRUE), IntValue(1) }

\* raw column names: "tweet id" and "tweet_id" normalize to the same name
CompileColumns == {T_tweet_sp_id, T_tweet_id, T_N}

\* a rule of one column with up to MaxValues values, or of two columns with up to
\* MaxPairValues values each
CompileRules ==
    { <<Entry(c, v)>> : c \in CompileColumns, v \in SeqsUpTo(RawTokens, MaxValues) }
        \cup { <<Entry(c[1], v[1]), Entry(c[2], v[2])>> :
                 c \in {x \in CompileColumns \X CompileColumns : x[1] # x[2]},
                 v \in SeqsUpTo(RawTokens, MaxPairValues) \X SeqsUpTo(RawTokens, MaxPairValues) }

CompileInit ==
    /\ EvalIdle
    /\ OthersIdle
    /\ data = <<>>
    /\ \E p \in CompileRules : patterns = <<Entry("r1", p)>>
    /\ processed_patterns = <<>>
    /\ results = <<>>
    /\ column_mapping = <<>>
    /\ pc = "compile"
    /\ li = 0
    /\ pi = 0
    /\ ri = 0
    /\ matching_rows = <<>>
    /\ last = NoLast
    /\ pending = {}

\* self._process_patterns(patterns)
ProcessPatterns ==
    /\ pc = "compile"
    /\ processed_patterns' = process_patterns(patterns, 1, processed_patterns)
    /\ pc' = "compiled"
    /\ UNCHANGED <<data, patterns, results, column_mapping, li, pi, ri, matching_rows, last,
                   pending, evalVars, otherVars>>

CompileNext == ProcessPatterns

SpecCompile == CompileInit /\ [][CompileNext]_vars

(***************************************************************************)
(* Several apply_patterns calls on one Analyzer instance.                  *)
(***************************************************************************)
\* the arguments of a call: one or two rules named "r1" and "r2"
RunPatterns ==
    { <<Entry(n, p)>> : n \in {"r1", "r2"}, p \in {P_str, P_bool} }
        \cup { <<Entry("r1", p), Entry("r2", q)>> : p \in {P_str, P_bool}, q \in {P_strnum} }

RunData == { <<Entry("es", <<r>>)>> : r \in EsRows }

RunsInit ==
    /\ EvalIdle
    /\ OthersIdle
    /\ data \in RunData
    /\ patterns \in RunPatterns
    /\ processed_patterns = <<>>
    /\ results = <<>>
    /\ column_mapping = <<>>
    /\ pc = "start"
    /\ li = 0
    /\ pi = 0
    /\ ri = 0
    /\ matching_rows = <<>>
    /\ last = NoLast
    /\ pending = {}

\* apply_patterns has returned and is called again on the same instance
ApplyAgain ==
    /\ pc = "done"
    /\ data' \in RunData
    /\ patterns' \in RunPatterns
    /\ pc' = "start"
    /\ li' = 0
    /\ pi' = 0
    /\ ri' = 0
    /\ UNCHANGED <<processed_patterns, results, column_mapping, matching_rows, last, pending,
                   evalVars, otherVars>>

\* get_summary()["patterns_processed"]
patterns_processed == [i \in 1..Len(processed_patterns) |-> processed_patterns[i].key]

RunsNext ==
    \/ Start
    \/ CheckRow
    \/ StoreResults
    \/ ApplyAgain

SpecRuns == RunsInit /\ [][RunsNext]_vars

(***************************************************************************)
(* apply_patterns with the (language, rule) pairs evaluated in any order:  *)
(* the body of the two loops is one step, taken for a pair not yet done.   *)
(***************************************************************************)
RECURSIVE pair_matching_rows(_, _, _, _)
\* matching_rows after "for idx, row in df.iterrows()", rows i.. still to go
pair_matching_rows(df, pattern_name, i, acc) ==
    IF i > Len(df) THEN acc
    ELSE pair_matching_rows(df, pattern_name, i + 1,
            IF row_is_appended(check_row_matches_pattern(df[i], pattern_name, processed_patterns))
            THEN Append(acc, df[i])
            ELSE acc)

AnyOrderInit ==
    /\ EvalIdle
    /\ OthersIdle
    /\ \E es \in SeqsUpTo(EsRows, MaxRows), en \in SeqsUpTo(EnRows, MaxEnRows) :
          data = <<Entry("es", es), Entry("en", en)>>
    /\ \E p1 \in {P_str, P_strnum, P_dateacc}, p2 \in SecondPatterns :
          patterns = <<Entry("r1", p1), Entry("r2", p2)>>
    /\ processed_patterns = <<>>
    /\ results = <<>>
    /\ column_mapping = <<>>
    /\ pc = "start"
    /\ li = 0
    /\ pi = 0
    /\ ri = 0
    /\ matching_rows = <<>>
    /\ last = NoLast
    /\ pending = {}

\* the statements of apply_patterns before its loops; every pair is still to do
StartAnyOrder ==
    /\ pc = "start"
    /\ processed_patterns' = process_patterns(patterns, 1, processed_patterns)
    /\ results' = [i \in 1..Len(patterns) |-> Entry(patterns[i].key, <<>>)]
    /\ column_mapping' = build_column_mapping(patterns, 1, column_mapping)
    /\ pending' = (1..Len(data)) \X (1..Len(patterns))
    /\ pc' = "pairs"
    /\ UNCHANGED <<data, patterns, li, pi, ri, matching_rows, last, evalVars, otherVars>>

\* the loop body for one pair: its rows are checked and its result is stored
EvaluatePair ==
    /\ pc = "pairs"
    /\ \E pair \in pending :
          LET language == data[pair[1]].key
              df == data[pair[1]].value
              pattern_name == patterns[pair[2]].key
          IN  /\ results' = store_results(results, pattern_name, language,
                                pair_matching_rows(df, pattern_name, 1,
                                                   fresh_matching_rows(matching_rows)))
              /\ li' = pair[1]
              /\ pi' = pair[2]
              /\ pending' = pending \ {pair}
              /\ pc' = IF pending = {pair} THEN "done" ELSE "pairs"
    /\ UNCHANGED <<data, patterns, processed_patterns, column_mapping, ri, matching_rows, last,
                   evalVars, otherVars>>

AnyOrderNext ==
    \/ StartAnyOrder
    \/ EvaluatePair

SpecAnyOrder == AnyOrderInit /\ [][AnyOrderNext]_vars

(***************************************************************************)
(* The merger: DataReader (src/merger/src/reader.py) driven by main.       *)
(* A table is a sequence of rows; a loaded row is a record of its data     *)
(* columns and the four metadata columns (named without their leading      *)
(* underscore).                                                            *)
(***************************************************************************)
\* the rows of the input tables: two data columns
MergerRows == {[id |-> 1, text |-> "x"], [id |-> 1, text |-> "y"]}

Tables == SeqsUpTo(MergerRows, MaxSheetRows)

DataFile(n, e, s) == [name |-> n, ext |-> e, sheets |-> s]

\* a CSV file holds one table; an Excel file a tab "es" and a tab "en"
FilesNamed(csv_name, xlsx_name) ==
    {DataFile(csv_name, ".csv", <<Entry("", t)>>) : t \in Tables}
    \cup {DataFile(xlsx_name, ".xlsx", <<Entry("es", t), Entry("en", u)>>) :
            t \in Tables, u \in SeqsUpTo(MergerRows, 1)}

metadata_cols == {"source_file", "source_path", "language", "sheet_name"}

\* df['_source_file'] = ...; df['_source_path'] = ...; df['_language'] = ...;
\* df['_sheet_name'] = ...
add_metadata(df, file_name, language, sheet_name) ==
    [i \in 1..Len(df) |->
        [id |-> df[i].id, text |-> df[i].text, source_file |-> file_name,
         source_path |-> <<"data/input", file_name>>, language |-> language,
         sheet_name |-> sheet_name]]

RECURSIVE read_excel_with_languages(_, _, _)
\* the non-empty tabs of the file from tab i on, each with its metadata columns
read_excel_with_languages(file, i, language_dfs) ==
    IF i > Len(file.sheets) THEN language_dfs
    ELSE LET sheet_name == file.sheets[i].key
             df == file.sheets[i].value
         IN  read_excel_with_languages(file, i + 1,
                IF df # <<>>
                THEN DictSet(language_dfs, sheet_name,
                             add_metadata(df, file.name, sheet_name, sheet_name))
                ELSE language_dfs)

RECURSIVE store_frames(_, _, _, _)
\* data_frames after the "for language, df in language_dfs.items()" loop of read_file
store_frames(file_name, language_dfs, i, frames) ==
    IF i > Len(language_dfs) THEN frames
    ELSE store_frames(file_name, language_dfs, i + 1,
            DictSet(frames, <<file_name, language_dfs[i].key>>, language_dfs[i].value))

RECURSIVE store_languages(_, _, _)
\* language_data after the same loop: a new language is stored, a known one extended
store_languages(language_dfs, i, by_language) ==
    IF i > Len(language_dfs) THEN by_language
    ELSE LET language == language_dfs[i].key
             df == language_dfs[i].value
         IN  store_languages(language_dfs, i + 1,
                IF language \notin Keys(by_language)
                THEN DictSet(by_language, language, df)
                ELSE DictSet(by_language, language, DictGet(by_language, language) \o df))

RECURSIVE concat(_)
\* pd.concat(dfs, ignore_index=True, sort=False)
concat(dfs) == IF dfs = <<>> THEN <<>> ELSE Head(dfs) \o concat(Tail(dfs))

\* the row restricted to the columns of subset
subset_key(row, subset) == [c \in subset |-> row[c]]

RECURSIVE drop_duplicates_keeplast(_, _, _)
\* keep='last': a row is dropped when an equal row follows
drop_duplicates_keeplast(df, subset, seen) ==
    IF df = <<>> THEN <<>>
    ELSE LET key == subset_key(Head(df), subset)
         IN  (IF \E j \in 1..Len(Tail(df)) : subset_key(Tail(df)[j], subset) = key
              THEN <<>> ELSE <<Head(df)>>)
             \o drop_duplicates_keeplast(Tail(df), subset, seen)

RECURSIVE drop_duplicates(_, _, _)
\* df.drop_duplicates(subset=subset, keep='first'): seen holds the keys met so far
drop_duplicates(df, subset, seen) ==
    IF df = <<>> THEN <<>>
    ELSE LET key == subset_key(Head(df), subset)
         IN  (IF key \in seen THEN <<>> ELSE <<Head(df)>>)
             \o drop_duplicates(Tail(df), subset, seen \cup {key})

\* subset = [col for col in self.combined_data.columns if col not in metadata_cols]
default_subset(df) == IF df = <<>> THEN {} ELSE (DOMAIN df[1]) \ metadata_cols

\* the directory holds no file, a file "a", or files "a" and "b"
MergerInit ==
    /\ EvalIdle
    /\ ApplyIdle
    /\ PatternReaderIdle
    /\ CollectIdle
    /\ \/ input_files = <<>>
       \/ \E a \in FilesNamed("a.csv", "a.xlsx") : input_files = <<a>>
       \/ \E a \in FilesNamed("a.csv", "a.xlsx"), b \in FilesNamed("b.csv", "b.xlsx") :
             input_files = <<a, b>>
    /\ data_frames = <<>>
    /\ language_data = <<>>
    /\ combined_data = <<>>
    /\ load_ok = FALSE
    /\ written = <<>>
    /\ fi = 1
    /\ mpc = "load"

\* one pass of "for file_path in files: df = self.read_file(file_path)"
ReadFile ==
    /\ mpc = "load"
    /\ fi <= Len(input_files)
    /\ LET file == input_files[fi]
           language_dfs == read_excel_with_languages(file, 1, <<>>)
       IN  IF file.ext \in {".xlsx", ".xls"}
           THEN /\ data_frames' = store_frames(file.name, language_dfs, 1, data_frames)
                /\ language_data' = store_languages(language_dfs, 1, language_data)
           ELSE \* the frame of a CSV file is returned and the caller drops it
                UNCHANGED <<data_frames, language_data>>
    /\ fi' = fi + 1
    /\ UNCHANGED <<input_files, combined_data, load_ok, written, mpc, evalVars, applyVars, patternVars, collectVars>>

\* the return of load_all_data, and process_all_data giving up when it is False
FinishLoad ==
    /\ mpc = "load"
    /\ fi > Len(input_files)
    /\ load_ok' = (input_files # <<>> /\ data_frames # <<>>)
    /\ mpc' = IF load_ok' THEN "combine" ELSE "main"
    /\ UNCHANGED <<input_files, data_frames, language_data, combined_data, written, fi,
                   evalVars, applyVars, patternVars, collectVars>>

\* combine_data
CombineData ==
    /\ mpc = "combine"
    /\ combined_data' = concat([i \in 1..Len(data_frames) |-> data_frames[i].value])
    /\ mpc' = "dedup"
    /\ UNCHANGED <<input_files, data_frames, language_data, load_ok, written, fi,
                   evalVars, applyVars, patternVars, collectVars>>

\* remove_duplicates(None)
RemoveDuplicates ==
    /\ mpc = "dedup"
    /\ combined_data' = drop_duplicates(combined_data, default_subset(combined_data), {})
    /\ mpc' = "main"
    /\ UNCHANGED <<input_files, data_frames, language_data, load_ok, written, fi,
                   evalVars, applyVars, patternVars, collectVars>>

\* main: language_data = reader.get_language_data(); writer.write_to_excel(language_data)
GetLanguageData ==
    /\ mpc = "main"
    /\ written' = language_data
    /\ mpc' = "done"
    /\ UNCHANGED <<input_files, data_frames, language_data, combined_data, load_ok, fi,
                   evalVars, applyVars, patternVars, collectVars>>

MergerNext ==
    \/ ReadFile
    \/ FinishLoad
    \/ CombineData
    \/ RemoveDuplicates
    \/ GetLanguageData

SpecMerger == MergerInit /\ [][MergerNext]_vars

(***************************************************************************)
(* The pattern reader: PatternReader.read_patterns                         *)
(* (src/analyzer/src/pattern_reader.py).  A rule file is what json.load    *)
(* makes of it: no document, a document that is no object, or an object    *)
(* with or without the keys "name" and "pattern".                          *)
(***************************************************************************)
\* a JSON value of a pattern column: a list of items or a string
JsonList(items) == [is_list |-> TRUE, items |-> items]
JsonString == [is_list |-> FALSE, items |-> <<>>]

Document(k, hn, n, pk, p) ==
    [kind |-> k, has_name |-> hn, name |-> n, pattern_kind |-> pk, pattern |-> p]

\* {"dá": ["a"], "DA": [">1"]}: two columns with one normalized name
PatternAccents ==
    <<Entry(T_d_acute, JsonList(<<StrValue(<<"a">>)>>)),
      Entry(<<"D", "A">>, JsonList(<<StrValue(<<">", "1">>)>>))>>

\* {"F o": "a"}: the value of the column is no list
PatternNoList == <<Entry(T_F_o, JsonString)>>

\* the documents a file with this base name may hold
Documents(base) ==
    { Document("invalid_json", FALSE, <<>>, "missing", <<>>),
      Document("number", FALSE, <<>>, "missing", <<>>),
      Document("object", TRUE, base, "missing", <<>>),
      Document("object", TRUE, base, "list", <<>>),
      Document("object", TRUE, base, "dict", PatternNoList),
      Document("object", TRUE, base, "dict", <<>>),
      Document("object", TRUE, base, "dict", PatternAccents),
      Document("object", FALSE, <<>>, "dict", PatternAccents) }

\* the file <base>.json and its document; its rule is named after its position
RuleFiles(i) ==
    LET base == <<"r", i>>
    IN  {[filename |-> <<base, ".json">>, document |-> d] : d \in Documents(<<"rule", i>>)}

\* PatternReader._normalize_column_name
reader_normalize_column_name(column_name) == lower(RemoveCombining(NFD(column_name)))

\* the validation without a check of the column values
validate_pattern_anyvalue(pattern_data) ==
    LET name_errors == IF ~pattern_data.has_name THEN <<"Missing 'name' field">> ELSE <<>>
    IN  IF pattern_data.pattern_kind = "missing"
        THEN [is_valid |-> FALSE, errors |-> Append(name_errors, "Missing 'pattern' field")]
        ELSE IF pattern_data.pattern_kind # "dict"
        THEN [is_valid |-> FALSE,
              errors |-> Append(name_errors, "'pattern' field must be a dictionary")]
        ELSE [is_valid |-> name_errors = <<>>, errors |-> name_errors]

\* PatternReader._validate_pattern: (is_valid, errors)
validate_pattern(pattern_data) ==
    LET name_errors == IF ~pattern_data.has_name THEN <<"Missing 'name' field">> ELSE <<>>
    IN  IF pattern_data.pattern_kind = "missing"
        THEN [is_valid |-> FALSE, errors |-> Append(name_errors, "Missing 'pattern' field")]
        ELSE IF pattern_data.pattern_kind # "dict"
        THEN [is_valid |-> FALSE,
              errors |-> Append(name_errors, "'pattern' field must be a dictionary")]
        ELSE LET value_errors ==
                     SelectSeq([i \in 1..Len(pattern_data.pattern) |->
                                   IF pattern_data.pattern[i].value.is_list THEN ""
                                   ELSE "must be a list"],
                               LAMBDA e : e # "")
                 errors == name_errors \o value_errors
             IN  [is_valid |-> errors = <<>>, errors |-> errors]

RECURSIVE normalize_pattern_columns(_, _, _)
\* PatternReader._normalize_pattern_columns, columns i.. still to go
normalize_pattern_columns(pattern, i, normalized_pattern) ==
    IF i > Len(pattern) THEN normalized_pattern
    ELSE normalize_pattern_columns(pattern, i + 1,
            DictSet(normalized_pattern, reader_normalize_column_name(pattern[i].key),
                    pattern[i].value))

\* pattern_data.get("name", filename.replace(".json", ""))
pattern_name_of(pattern_data, filename) ==
    IF pattern_data.has_name THEN pattern_data.name ELSE filename[1]

PatternReaderInit ==
    /\ EvalIdle
    /\ ApplyIdle
    /\ MergerIdle
    /\ CollectIdle
    /\ \E n \in 0..MaxRuleFiles :
          pattern_files \in [1..n -> UNION {RuleFiles(i) : i \in 1..MaxRuleFiles}]
    /\ \A i \in 1..Len(pattern_files) : pattern_files[i] \in RuleFiles(i)
    /\ reader_patterns = <<>>
    /\ validation_results = <<>>
    /\ pfi = 1

\* one pass of "for file_path in pattern_files"
ReadPatternFile ==
    /\ pfi \in 1..Len(pattern_files)
    /\ LET filename == pattern_files[pfi].filename
           pattern_data == pattern_files[pfi].document
           validation == validate_pattern(pattern_data)
       IN  IF pattern_data.kind = "invalid_json"
           THEN \* except json.JSONDecodeError
                /\ validation_results' = Append(validation_results,
                      [filename |-> filename, valid |-> FALSE, text |-> "Invalid JSON format"])
                /\ UNCHANGED reader_patterns
           ELSE IF pattern_data.kind # "object"
           THEN \* "name" not in pattern_data raises TypeError: except Exception
                /\ validation_results' = Append(validation_results,
                      [filename |-> filename, valid |-> FALSE, text |-> "Error reading file"])
                /\ UNCHANGED reader_patterns
           ELSE IF validation.is_valid
           THEN /\ reader_patterns' =
                      DictSet(reader_patterns, pattern_name_of(pattern_data, filename),
                              normalize_pattern_columns(pattern_data.pattern, 1, <<>>))
                /\ validation_results' = Append(validation_results,
                      [filename |-> filename, valid |-> TRUE, text |-> "Valid pattern"])
           ELSE /\ validation_results' = Append(validation_results,
                      [filename |-> filename, valid |-> FALSE, text |-> "Invalid"])
                /\ UNCHANGED reader_patterns
    /\ pfi' = pfi + 1
    /\ UNCHANGED <<pattern_files, evalVars, applyVars, mergerVars, collectVars>>

\* the report is logged and self.patterns returned
ReturnPatterns ==
    /\ pfi = Len(pattern_files) + 1
    /\ pfi' = Len(pattern_files) + 2
    /\ UNCHANGED <<pattern_files, reader_patterns, validation_results, evalVars, applyVars,
                   mergerVars, collectVars>>

PatternReaderNext ==
    \/ ReadPatternFile
    \/ ReturnPatterns

SpecPatternReader == PatternReaderInit /\ [][PatternReaderNext]_vars

(***************************************************************************)
(* The writers: the three sheet-name sanitizers and the column order of a  *)
(* rule sheet (src/analyzer/src/writter.py, src/merger/src/writter.py,     *)
(* src/src/writter.py), as calls on the variables call / ret / epc.        *)
(***************************************************************************)
invalid_chars == {"\\", "/", "*", "?", ":", "[", "]"}

\* the loop without the last character of the list
replace_invalid_chars_nobracket(name) ==
    [i \in 1..Len(name) |-> IF name[i] \in invalid_chars \ {"]"} THEN "_" ELSE name[i]]

\* for char in invalid_chars: sanitized = sanitized.replace(char, '_')
replace_invalid_chars(name) ==
    [i \in 1..Len(name) |-> IF name[i] \in invalid_chars THEN "_" ELSE name[i]]

\* Writter._sanitize_sheet_name (analyzer)
analyzer_sanitize_sheet_name(name) ==
    LET sanitized == replace_invalid_chars(name)
    IN  IF Len(sanitized) > 31 THEN SubSeq(sanitized, 1, 28) \o <<".", ".", ".">>
        ELSE sanitized

\* DataWriter._sanitize_sheet_name (merger)
merger_sanitize_sheet_name(sheet_name) ==
    replace_invalid_chars(IF Len(sheet_name) > 31 THEN SubSeq(sheet_name, 1, 31)
                          ELSE sheet_name)

\* _sanitize_sheet_name (API writer)
api_sanitize_sheet_name(language) ==
    LET replaced == replace_invalid_chars(language)
        sheet_name == IF Len(replaced) > 31 THEN SubSeq(replaced, 1, 31) ELSE replaced
    IN  IF sheet_name = <<>> THEN <<"u", "n", "k", "n", "o", "w", "n">> ELSE sheet_name

T_language == <<"_", "l", "a", "n", "g", "u", "a", "g", "e">>

\* 'if _language not in df.columns: df_with_lang[_language] = language'
with_language(columns) ==
    IF T_language \in Range(columns) THEN columns ELSE Append(columns, T_language)

RECURSIVE concat_columns(_, _)
\* the columns of pd.concat(all_matching_rows): the union, in order of first appearance
concat_columns(frames, columns) ==
    IF frames = <<>> THEN columns
    ELSE concat_columns(Tail(frames),
            columns \o SelectSeq(with_language(Head(frames)),
                                 LAMBDA c : c \notin Range(columns)))

\* the data columns in their own order, whatever the rule declares
final_columns_dataorder(original_columns, combined_columns) == combined_columns

\* final_columns: the pattern columns found in the data, then the remaining columns
final_columns(original_columns, combined_columns) ==
    LET first == SelectSeq(original_columns, LAMBDA col : col \in Range(combined_columns))
    IN  first \o SelectSeq(combined_columns, LAMBDA col : col \notin Range(first))

\* the columns of the sheet of one rule; known: the rule is in original_patterns
sheet_columns(known, pattern_columns, language_results) ==
    LET original_columns == IF known THEN pattern_columns ELSE language_results[1]
    IN  final_columns(original_columns, concat_columns(language_results, <<>>))

SheetChars == invalid_chars \cup {"a"}

\* a character repeated n times
Filled(c, n) == [i \in 1..n |-> c]

\* names of up to MaxFill + 2 characters, with any character at either end
SheetNames ==
    {p \o Filled(c, n) \o q : p \in SeqsUpTo(SheetChars, 1), q \in SeqsUpTo(SheetChars, 1),
                              c \in {"a", "?"}, n \in 0..MaxFill}

ColumnNames == {<<"a">>, <<"b">>, <<"c">>, T_language}

\* lists of up to n distinct column names
ColumnLists(n) ==
    {l \in SeqsUpTo(ColumnNames, n) : \A i, j \in 1..Len(l) : i # j => l[i] # l[j]}

IsWriterCall(c) ==
    \/ \E name \in SheetNames, f \in {"analyzer", "merger", "api"} :
          c = Call(f, NoneValue, <<name>>, <<>>, <<>>)
    \/ \E pattern_columns \in ColumnLists(MaxColumns),
          first \in ColumnLists(MaxColumns) \ {<<>>},
          second \in ColumnLists(MaxColumns), known \in BOOLEAN :
          c = Call("write_analysis_results", NoneValue, pattern_columns,
                   IF second = <<>> THEN <<first>> ELSE <<first, second>>, <<known>>)

WriterInit ==
    /\ IsWriterCall(call)
    /\ ret = Ret(FALSE, <<>>, <<>>)
    /\ epc = "call"
    /\ ApplyIdle
    /\ OthersIdle

SanitizeAnalyzer ==
    /\ epc = "call"
    /\ call.fn = "analyzer"
    /\ ret' = Ret(FALSE, analyzer_sanitize_sheet_name(call.texts[1]), <<>>)
    /\ epc' = "return"
    /\ UNCHANGED <<call, applyVars, otherVars>>

SanitizeMerger ==
    /\ epc = "call"
    /\ call.fn = "merger"
    /\ ret' = Ret(FALSE, merger_sanitize_sheet_name(call.texts[1]), <<>>)
    /\ epc' = "return"
    /\ UNCHANGED <<call, applyVars, otherVars>>

SanitizeApi ==
    /\ epc = "call"
    /\ call.fn = "api"
    /\ ret' = Ret(FALSE, api_sanitize_sheet_name(call.texts[1]), <<>>)
    /\ epc' = "return"
    /\ UNCHANGED <<call, applyVars, otherVars>>

\* the columns of final_df for one rule of write_analysis_results
OrderColumns ==
    /\ epc = "call"
    /\ call.fn = "write_analysis_results"
    /\ ret' = Ret(FALSE, sheet_columns(call.bools[1], call.texts, call.conds), <<>>)
    /\ epc' = "return"
    /\ UNCHANGED <<call, applyVars, otherVars>>

WriterNext ==
    \/ SanitizeAnalyzer
    \/ SanitizeMerger
    \/ SanitizeApi
    \/ OrderColumns

SpecWriter == WriterInit /\ [][WriterNext]_vars

(***************************************************************************)
(* The API collector: collect_tweets (src/src/controller.py).  The search  *)
(* API is the environment: each call of get_tweets answers with some page. *)
(***************************************************************************)
Tweet(i, t) == [id |-> i, text |-> t]

ApiPage(d, n) == [data |-> d, has_next_token |-> n]

\* the pages the API may answer with: the id "1" comes with two different texts
ApiPages ==
    {ApiPage(d, n) : d \in { <<>>, <<Tweet("1", "x")>>, <<Tweet("1", "y"), Tweet("2", "x")>>,
                             <<Tweet("2", "y"), Tweet("1", "x"), Tweet("2", "x")>> },
                     n \in BOOLEAN}

\* the search terms of a language: none, one term, or an empty term first
TermLists == { <<>>, <<<<"g", "a", "t", "o">>>>, <<<<>>, <<"g", "a", "t", "o">>>> }

RECURSIVE build_chunks(_, _, _)
\* build_chunks: the terms up to the first empty one or the one that passes max_len
build_chunks(term_list, i, length) ==
    IF i > Len(term_list) THEN <<>>
    ELSE LET new_length == length + Len(term_list[i]) + 4
         IN  IF new_length < 900 /\ Len(term_list[i]) > 0
             THEN <<term_list[i]>> \o build_chunks(term_list, i + 1, new_length)
             ELSE <<>>

\* make_query: one query of the chunks, none when there is no chunk
make_query(lang, term_list) ==
    LET chunks == build_chunks(term_list, 1, 0)
    IN  IF chunks = <<>> THEN <<>> ELSE <<[lang |-> lang, chunks |-> chunks]>>

\* math.ceil(max_tweets / len(settings.TERMS))
ceil_div(a, b) == (a + b - 1) \div b

Collected(r, s, n) == [rows |-> r, seen_ids |-> s, added |-> n]

RECURSIVE process_page_noseen(_, _, _)
\* the loop without the test of seen_ids
process_page_noseen(page_data, i, acc) ==
    IF i > Len(page_data) THEN acc
    ELSE process_page_noseen(page_data, i + 1,
            Collected(Append(acc.rows, page_data[i]), acc.seen_ids \cup {page_data[i].id},
                      acc.added + 1))

RECURSIVE process_page(_, _, _)
\* "for tweet in data['data']": a tweet whose id was seen is skipped, another one is
\* appended to rows and counted
process_page(page_data, i, acc) ==
    IF i > Len(page_data) THEN acc
    ELSE process_page(page_data, i + 1,
            IF page_data[i].id \in acc.seen_ids THEN acc
            ELSE Collected(Append(acc.rows, page_data[i]), acc.seen_ids \cup {page_data[i].id},
                           acc.added + 1))

\* what get_tweets returns after a network exception: None
NoResponse == [data |-> <<>>, has_next_token |-> FALSE, none |-> TRUE]

\* the values of meta.next_token
Tokens == {"t1", "t2"}

CollectInit ==
    /\ EvalIdle
    /\ ApplyIdle
    /\ MergerIdle
    /\ PatternReaderIdle
    /\ \E es \in TermLists, en \in TermLists : terms = <<Entry("es", es), Entry("en", en)>>
    /\ \E max_tweets \in 1..MaxTweets : amount_tweets = ceil_div(max_tweets, 2)
    /\ rows = <<>>
    /\ seen_ids = {}
    /\ count = <<Entry("es", 0), Entry("en", 0)>>
    /\ pages = <<>>
    /\ clang = 1
    /\ cpc = "loop"
    /\ next_token = "none"
    /\ session_backup_file = "none"
    /\ session_rows = <<>>
    /\ backup = <<>>

\* the loops go on with the next language, or collect_tweets returns
NextLanguage == /\ clang' = clang + 1
                /\ cpc' = IF clang + 1 > Len(terms) THEN "done" ELSE "loop"
                /\ next_token' = "none"

\* write_row_to_backup(row): the file is created by the first call of the session,
\* the row is appended to the session's rows and the whole list is written to the file
write_row_to_backup(row) ==
    /\ session_backup_file' = IF session_backup_file = "none" THEN "backup_1"
                              ELSE session_backup_file
    /\ session_rows' = Append(session_rows, row)
    /\ backup' = Append(session_rows, row)

\* the language has no query, or "while count[lang] < amount_tweets" is false
LeaveLoop ==
    /\ cpc = "loop"
    /\ \/ make_query(terms[clang].key, terms[clang].value) = <<>>
       \/ DictGet(count, terms[clang].key) >= amount_tweets
    /\ NextLanguage
    /\ UNCHANGED <<terms, amount_tweets, rows, seen_ids, count, pages, session_backup_file,
                   session_rows, backup, evalVars, applyVars, mergerVars, patternVars>>

\* the while loop is entered for one more pass
InWhileLoop ==
    /\ cpc = "loop"
    /\ make_query(terms[clang].key, terms[clang].value) # <<>>
    /\ DictGet(count, terms[clang].key) < amount_tweets

\* one pass of the while loop: a page is fetched and its tweets are taken in.  With
\* keep_history the responses are recorded and written to the backup, at most
\* MaxFetches of them; without it the pass leaves the record and the backup alone.
FetchStep(keep_history) ==
    /\ InWhileLoop
    /\ keep_history => (Len(pages) < MaxFetches /\ Len(session_rows) < MaxFetches)
    /\ \E response \in ApiPages :
          LET lang == terms[clang].key
              taken == process_page(response.data, 1, Collected(rows, seen_ids, 0))
          IN  /\ IF keep_history
                 THEN pages' = Append(pages, response) /\ write_row_to_backup(response)
                 ELSE UNCHANGED <<pages, session_backup_file, session_rows, backup>>
              /\ IF response.data = <<>>
                 THEN \* if not data.get("data"): break
                      /\ UNCHANGED <<rows, seen_ids, count>>
                      /\ NextLanguage
                 ELSE /\ rows' = taken.rows
                      /\ seen_ids' = taken.seen_ids
                      /\ count' = DictSet(count, lang, DictGet(count, lang) + taken.added)
                      /\ IF ~response.has_next_token
                         THEN NextLanguage
                         ELSE /\ \E token \in Tokens : next_token' = token
                              /\ UNCHANGED <<clang, cpc>>
    /\ UNCHANGED <<terms, amount_tweets, evalVars, applyVars, mergerVars, patternVars>>

FetchPage == FetchStep(TRUE)

\* a pass of the while loop in which get_tweets returns None: the None is written to
\* the backup, then data.get raises AttributeError, which leaves collect_tweets
FetchFails ==
    /\ InWhileLoop
    /\ Len(pages) < MaxFetches /\ Len(session_rows) < MaxFetches
    /\ pages' = Append(pages, NoResponse)
    /\ write_row_to_backup(NoResponse)
    /\ cpc' = "raised"
    /\ UNCHANGED <<terms, amount_tweets, rows, seen_ids, count, clang, next_token,
                   evalVars, applyVars, mergerVars, patternVars>>

CollectNext ==
    \/ LeaveLoop
    \/ FetchPage
    \/ FetchFails

SpecCollect == CollectInit /\ [][CollectNext]_vars

\* collect_tweets has returned and is called again in the same process
CollectAgain ==
    /\ cpc = "done"
    /\ Len(session_rows) < MaxFetches
    /\ rows' = <<>>
    /\ seen_ids' = {}
    /\ count' = [i \in 1..Len(terms) |-> Entry(terms[i].key, 0)]
    /\ pages' = <<>>
    /\ clang' = 1
    /\ cpc' = "loop"
    /\ UNCHANGED <<terms, amount_tweets, next_token, session_backup_file, session_rows, backup,
                   evalVars, applyVars, mergerVars, patternVars>>

SessionsNext ==
    \/ LeaveLoop
    \/ FetchPage
    \/ FetchFails
    \/ CollectAgain

SpecSessions == CollectInit /\ [][SessionsNext]_vars

\* a pass of the while loop, the responses not recorded
FetchForever == FetchStep(FALSE)

CollectLiveNext ==
    \/ LeaveLoop
    \/ FetchForever

\* collect_tweets keeps running: no step that can be taken is put off for ever
SpecCollectLive ==
    CollectInit /\ [][CollectLiveNext]_vars /\ WF_vars(LeaveLoop) /\ WF_vars(FetchForever)

(***************************************************************************)
(* Claims about the normalizer and the evaluators (under SpecEval).        *)
(***************************************************************************)
\* x occurs in y as a contiguous block
OccursIn(x, y) ==
    \E k \in 0..Len(y) :
        /\ k + Len(x) <= Len(y)
        /\ \A j \in 1..Len(x) : y[k + j] = x[j]

\* the words of t: its maximal blocks of non-whitespace characters
WordSet(t) ==
    { SubSeq(t, i, j) : <<i, j>> \in
        { q \in (1..Len(t)) \X (1..Len(t)) :
            /\ q[1] <= q[2]
            /\ \A k \in q[1]..q[2] : t[k] \notin Whitespace
            /\ (q[1] = 1 \/ t[q[1] - 1] \in Whitespace)
            /\ (q[2] = Len(t) \/ t[q[2] + 1] \in Whitespace) } }

\* |W1 n W2| / |W1 u W2| > 0.7, 0 when either set is empty
JaccardAbove07(P, C) ==
    LET W1 == WordSet(P)
        W2 == WordSet(C)
    IN  /\ W1 # {}
        /\ W2 # {}
        /\ 10 * Cardinality(W1 \cap W2) > 7 * Cardinality(W1 \cup W2)

StringClaim(cell, pats) ==
    /\ ~isna(cell)
    /\ \E i \in 1..Len(pats) :
          LET P == normalize_text_for_comparison(StrValue(pats[i]))
              C == normalize_text_for_comparison(cell)
          IN  OccursIn(P, C) \/ OccursIn(C, P) \/ JaccardAbove07(P, C)

\* C3: _check_string_condition returns true exactly when the cell is not null and, for
\* some pattern p, normalize(p) is a substring of normalize(cell), or the reverse, or
\* the Jaccard similarity of their word sets is greater than 0.7.
C3_StringCondition ==
    Returned("check_string_condition") => (ret.bool <=> StringClaim(call.cell, call.texts))

\* a call decided by the word similarity alone: neither text contains the other, and
\* the two word sets differ (3 words of 4 are shared)
C3_Witness ==
    /\ Returned("check_string_condition")
    /\ ret.bool
    /\ Len(call.texts) = 1
    /\ LET P == normalize_text_for_comparison(StrValue(call.texts[1]))
           C == normalize_text_for_comparison(call.cell)
       IN  ~OccursIn(P, C) /\ ~OccursIn(C, P) /\ WordSet(P) # WordSet(C)

\* C5: normalizing a normalized text gives the same text.
C5_Idempotent ==
    (epc = "again" /\ call.fn = "normalize_text_for_comparison") => ret.text = ret.prev

Compare(op, x, v) ==
    CASE op = "<" -> x < v
      [] op = ">" -> x > v
      [] op = "=" -> x = v

\* C7: _check_numeric_condition returns true exactly when the cell is not null, coerces
\* to a number x and some condition (op, v) holds of x; otherwise false.
C7_NumericCondition ==
    Returned("check_numeric_condition") =>
        (ret.bool <=>
            /\ ~isna(call.cell)
            /\ float(call.cell).ok
            /\ ~float(call.cell).nan
            /\ \E i \in 1..Len(call.conds) :
                  Compare(call.conds[i].operator, float(call.cell).val, call.conds[i].value))

\* a text cell that is a number and satisfies a condition
C7_Witness ==
    /\ Returned("check_numeric_condition")
    /\ call.cell.kind = "str"
    /\ ret.bool

\* the calendar day of a date-valued cell: [ok, day]
CalendarDay(cell) ==
    CASE cell.kind \in {"datetime", "date"} -> [ok |-> TRUE, day |-> cell.num]
      [] cell.kind = "str" -> [ok |-> strptime(cell.txt).ok, day |-> strptime(cell.txt).value.day]
      [] OTHER -> [ok |-> FALSE, day |-> 0]

\* C8: _check_date_condition returns true exactly when the cell is date-valued and some
\* condition (op, v) holds between the cell's calendar day and v.
C8_CalendarDate ==
    Returned("check_date_condition") =>
        (ret.bool <=>
            /\ CalendarDay(call.cell).ok
            /\ \E i \in 1..Len(call.conds) :
                  Compare(call.conds[i].operator, CalendarDay(call.cell).day,
                          call.conds[i].value.day))

\* the boolean a cell stands for, when it is a boolean, a string or a number
Truth(cell) ==
    IF cell.kind = "bool" THEN cell.flag
    ELSE IF cell.kind = "str" THEN \E w \in TrueWords : lower(cell.txt) = w
    ELSE cell.num # 0

\* C9: _check_boolean_condition returns false for a null cell and for a cell that is not
\* a boolean, a string or a number; otherwise true exactly when the coerced cell is in
\* the accepted list.
C9_BooleanCondition ==
    Returned("check_boolean_condition") =>
        IF isna(call.cell) \/ call.cell.kind \notin {"bool", "str", "int"}
        THEN ret.bool = FALSE
        ELSE ret.bool <=> (Truth(call.cell) \in Range(call.bools))

\* a text cell written in capitals that is accepted as true
C9_Witness ==
    /\ Returned("check_boolean_condition")
    /\ call.cell.kind = "str"
    /\ call.cell.txt # lower(call.cell.txt)
    /\ ret.bool
    /\ call.bools = <<TRUE>>

(***************************************************************************)
(* Claims about the row matcher and apply_patterns (under Spec).           *)
(***************************************************************************)
\* the compiled rule of the most recent _check_row_matches_pattern call
LastEntries == BucketEntries(DictGet(processed_patterns, last.pattern_name))

\* the row has a column whose normalized label is the normalized name
ColumnPresent(column, row) ==
    \E k \in 1..Len(row) : normalize_column_name(row[k].key) = normalize_column_name(column)

\* a referenced column is satisfied: the row has it and one of its conditions holds
ColumnSatisfied(e, row) ==
    /\ ColumnPresent(e.column, row)
    /\ check_condition(e.bucket, row[find_column_case_insensitive(e.column, row)].value, e.conds)

\* C1: _check_row_matches_pattern returns true exactly when every column referenced in
\* any of the four buckets of the compiled rule is satisfied by the row.
C1_MatchIffAllColumnsSatisfied ==
    last.called =>
        (last.ret <=> \A i \in 1..Len(LastEntries) : ColumnSatisfied(LastEntries[i], last.row))

\* C2: when the compiled rule references a column the row does not have, whatever the
\* bucket and whatever the other columns hold, _check_row_matches_pattern returns false.
C2_MissingColumnNeverMatches ==
    (last.called /\ \E i \in 1..Len(LastEntries) : ~ColumnPresent(LastEntries[i].column, last.row))
        => last.ret = FALSE

\* a numeric column is missing while a string column of the same rule is satisfied
C2_Witness ==
    /\ last.called
    /\ ~last.ret
    /\ \E i, j \in 1..Len(LastEntries) :
          /\ LastEntries[i].bucket = "numeric"
          /\ ~ColumnPresent(LastEntries[i].column, last.row)
          /\ ColumnSatisfied(LastEntries[j], last.row)

\* results[rule][language], the empty list when the pair has no entry
Stored(pattern_name, language) ==
    IF pattern_name \in Keys(results) /\ language \in Keys(DictGet(results, pattern_name))
    THEN DictGet(DictGet(results, pattern_name), language)
    ELSE <<>>

RECURSIVE MatchingRows(_, _)
\* the rows of df that match the rule, in the order of df
MatchingRows(df, pattern_name) ==
    IF df = <<>> THEN <<>>
    ELSE (IF check_row_matches_pattern(Head(df), pattern_name, processed_patterns).ret
          THEN <<Head(df)>> ELSE <<>>) \o MatchingRows(Tail(df), pattern_name)

\* C4: when apply_patterns returns, the rows stored under each (rule, language) pair are
\* exactly the rows of that language that match the rule, in source order, each once.
C4_ResultsAreTheMatchingRows ==
    pc = "done" =>
        \A i \in 1..Len(patterns), j \in 1..Len(data) :
            Stored(patterns[i].key, data[j].key) = MatchingRows(data[j].value, patterns[i].key)

\* a row kept under both rules, next to a row of the same language that one rule rejects
C4_Witness ==
    /\ pc = "done"
    /\ Len(Stored("r1", "es")) >= 1
    /\ Len(Stored("r1", "es")) < Len(data[1].value)
    /\ Range(Stored("r1", "es")) \cap Range(Stored("r2", "es")) # {}
    /\ patterns[1].value # patterns[2].value

\* the name without accents, in lower case, cut into its words
FoldCaseAccentSpace(name) == split(lower(RemoveCombining(NFD(name))))

\* the name in lower case, cut into its words
FoldCaseSpace(name) == split(lower(name))

\* the raw rule columns of the most recent call that take part in matching
LastRawColumns ==
    LET pattern_data == DictGet(patterns, last.pattern_name)
    IN  {pattern_data[i].key : i \in {k \in 1..Len(pattern_data) : pattern_data[k].value # <<>>}}

EmptyRule(pattern_data) == \A i \in 1..Len(pattern_data) : pattern_data[i].value = <<>>

\* C10: a rule with an empty pattern mapping, or with only empty value lists, compiles
\* to a rule with no referenced column, and apply_patterns returns every row of each
\* non-empty language under it.
C10_EmptyRuleMatchesEveryRow ==
    \A i \in 1..Len(patterns) :
        EmptyRule(patterns[i].value) =>
            /\ pc # "start" => BucketEntries(DictGet(processed_patterns, patterns[i].key)) = <<>>
            /\ pc = "done" =>
                  \A j \in 1..Len(data) :
                      data[j].value # <<>> =>
                          /\ data[j].key \in Keys(DictGet(results, patterns[i].key))
                          /\ Stored(patterns[i].key, data[j].key) = data[j].value

\* a rule whose columns all have empty value lists holds every row of a language
C10_Witness ==
    /\ pc = "done"
    /\ patterns[1].value # <<>>
    /\ EmptyRule(patterns[1].value)
    /\ Len(data[1].value) >= 2
    /\ Stored("r1", "es") = data[1].value

\* some row of the language matches the rule
SomeRowMatches(df, pattern_name) ==
    \E k \in 1..Len(df) :
        LET outcome == check_row_matches_pattern(df[k], pattern_name, processed_patterns)
        IN  ~outcome.raised /\ outcome.ret

\* C11: the mapping of apply_patterns never holds an empty row collection, and when the
\* call returns a (rule, language) pair has an entry exactly when some row of the
\* language matches the rule.
C11_EntryIffSomeRowMatches ==
    /\ \A i \in 1..Len(results) : \A j \in 1..Len(results[i].value) :
          results[i].value[j].value # <<>>
    /\ pc = "done" =>
          \A i \in 1..Len(patterns) : \A j \in 1..Len(data) :
              data[j].key \in Keys(DictGet(results, patterns[i].key))
                  <=> SomeRowMatches(data[j].value, patterns[i].key)

\* a rule with an entry for one language and none for the other, which has rows
C11_Witness ==
    /\ pc = "done"
    /\ \E i \in 1..Len(patterns) :
          /\ "es" \in Keys(DictGet(results, patterns[i].key))
          /\ "en" \notin Keys(DictGet(results, patterns[i].key))
          /\ data[2].value # <<>>

\* the evaluation of the row against the rule raises
RowRaises(row, pattern_name) ==
    check_row_matches_pattern(row, pattern_name, processed_patterns).raised

\* the rows of df whose evaluation against the rule ends without an error and succeeds
CleanMatches(df, pattern_name) ==
    SelectSeq(df, LAMBDA row :
        LET outcome == check_row_matches_pattern(row, pattern_name, processed_patterns)
        IN  ~outcome.raised /\ outcome.ret)

\* C12: a row whose evaluation raises is not appended and the loop goes on to the next
\* row; when apply_patterns returns, every pair holds the rows that evaluate to a match,
\* and no row whose evaluation raised.
C12_RowErrorIsNonMatch ==
    /\ [](pc = "done" =>
            \A i \in 1..Len(patterns) : \A j \in 1..Len(data) :
                /\ Stored(patterns[i].key, data[j].key)
                      = CleanMatches(data[j].value, patterns[i].key)
                /\ \A k \in 1..Len(data[j].value) :
                      RowRaises(data[j].value[k], patterns[i].key)
                          => data[j].value[k] \notin Range(Stored(patterns[i].key, data[j].key)))
    /\ [][(pc = "rows" /\ ri' = ri + 1 /\ last'.raised)
            => (matching_rows' = matching_rows /\ pc' = "rows" /\ results' = results)]_vars

\* the call returned although the first row of "es" raised under the first rule: the
\* next row of "es" is kept under that rule, the raising row is kept under the second
\* rule, and a row of "en" is kept as well
C12_Witness ==
    /\ pc = "done"
    /\ Len(data[1].value) = 2
    /\ RowRaises(data[1].value[1], "r1")
    /\ Stored("r1", "es") = <<data[1].value[2]>>
    /\ data[1].value[1] \in Range(Stored("r2", "es"))
    /\ Stored("r2", "en") # <<>>

(***************************************************************************)
(* Claims about the merger (under SpecMerger).                             *)
(***************************************************************************)
\* the cells of the row outside the four provenance columns
DataCells(row) == <<row.id, row.text>>

\* the loaded frames one after the other, in the order they were stored
CombinedOrder == concat([i \in 1..Len(data_frames) |-> data_frames[i].value])

\* the positions of CombinedOrder that no earlier position equals on the data cells
FirstOccurrences ==
    {i \in 1..Len(CombinedOrder) :
        \A j \in 1..(i - 1) : DataCells(CombinedOrder[j]) # DataCells(CombinedOrder[i])}

\* the k-th smallest element of the set of positions
NthOf(S, k) == CHOOSE i \in S : Cardinality({j \in S : j < i}) = k - 1

\* no two rows of the table are equal on every data column
NoEqualRows(df) ==
    \A a, b \in 1..Len(df) : a # b => DataCells(df[a]) # DataCells(df[b])

\* C13: after combine_data and remove_duplicates the combined data holds no two rows
\* equal on every non-provenance column; the rows kept are the first occurrences in
\* combined order, in that order.
C13_DedupKeepsFirstInOrder ==
    (mpc \in {"main", "done"} /\ load_ok) =>
        /\ NoEqualRows(combined_data)
        /\ Len(combined_data) = Cardinality(FirstOccurrences)
        /\ \A k \in 1..Len(combined_data) :
              combined_data[k] = CombinedOrder[NthOf(FirstOccurrences, k)]

\* two rows are kept, and a row dropped from the second file equals a kept row of the
\* first file
C13_Witness ==
    /\ mpc = "done"
    /\ load_ok
    /\ Len(combined_data) = 2
    /\ Len(CombinedOrder) > 2
    /\ \E i \in 1..Len(CombinedOrder) :
          /\ i \notin FirstOccurrences
          /\ CombinedOrder[i].source_file = "b.xlsx"
          /\ \E k \in 1..Len(combined_data) :
                /\ combined_data[k].source_file = "a.xlsx"
                /\ DataCells(combined_data[k]) = DataCells(CombinedOrder[i])

\* C14: after process_all_data succeeds, the per-language data handed to the writer
\* holds no two rows equal on all non-provenance columns.
C14_WrittenDataIsDeduplicated ==
    (mpc = "done" /\ load_ok) =>
        \A i \in 1..Len(written) : NoEqualRows(written[i].value)

\* the row of the file is in a loaded frame, tagged with the file
RowIsLoaded(file, row) ==
    \E d \in 1..Len(data_frames) : \E k \in 1..Len(data_frames[d].value) :
        /\ DataCells(data_frames[d].value[k]) = DataCells(row)
        /\ data_frames[d].value[k].source_file = file.name

\* C15: once load_all_data has returned, every row of every input file is in the loaded
\* data, and a directory that holds only CSV files with rows is loaded successfully.
C15_EveryRowIsLoaded ==
    mpc \in {"combine", "dedup", "main", "done"} =>
        /\ \A f \in 1..Len(input_files) : \A t \in 1..Len(input_files[f].sheets) :
              \A r \in 1..Len(input_files[f].sheets[t].value) :
                  RowIsLoaded(input_files[f], input_files[f].sheets[t].value[r])
        /\ (/\ input_files # <<>>
            /\ \A f \in 1..Len(input_files) :
                  input_files[f].ext = ".csv" /\ input_files[f].sheets[1].value # <<>>)
              => load_ok

(***************************************************************************)
(* Claims about the pattern reader (under SpecPatternReader).              *)
(***************************************************************************)
\* read_patterns has returned
PatternsReturned == pfi = Len(pattern_files) + 2

\* the document has a pattern mapping whose every column holds a list
WellFormedPattern(d) ==
    /\ d.kind = "object"
    /\ d.pattern_kind = "dict"
    /\ \A i \in 1..Len(d.pattern) : d.pattern[i].value.is_list

\* C16: whatever the position of the malformed files, read_patterns returns; the report
\* has one line per file, the line of a malformed file says invalid and the file adds
\* no rule, and the rule of every valid file is in the mapping under its name, with
\* its columns normalized.
C16_MalformedFilesAreSkipped ==
    PatternsReturned =>
        /\ Len(validation_results) = Len(pattern_files)
        /\ \A i \in 1..Len(pattern_files) :
              LET d == pattern_files[i].document
              IN  /\ validation_results[i].filename = pattern_files[i].filename
                  /\ ~WellFormedPattern(d) =>
                        /\ ~validation_results[i].valid
                        /\ d.has_name => d.name \notin Keys(reader_patterns)
                  /\ (WellFormedPattern(d) /\ d.has_name) =>
                        /\ validation_results[i].valid
                        /\ d.name \in Keys(reader_patterns)
                        /\ Keys(DictGet(reader_patterns, d.name))
                              = {lower(RemoveCombining(NFD(d.pattern[k].key))) :
                                    k \in 1..Len(d.pattern)}

\* a file that is no JSON comes first and the rule of the valid file after it is loaded
C16_Witness ==
    /\ PatternsReturned
    /\ Len(pattern_files) >= 2
    /\ pattern_files[1].document.kind = "invalid_json"
    /\ WellFormedPattern(pattern_files[2].document)
    /\ pattern_files[2].document.pattern # <<>>
    /\ pattern_files[2].document.has_name
    /\ pattern_files[2].document.name \in Keys(reader_patterns)

\* C17: a rule file with a well-formed pattern mapping and no name key is loaded under
\* its file name without the .json extension.
C17_NamelessFileIsLoaded ==
    PatternsReturned =>
        \A i \in 1..Len(pattern_files) :
            (WellFormedPattern(pattern_files[i].document) /\ ~pattern_files[i].document.has_name)
                => pattern_files[i].filename[1] \in Keys(reader_patterns)

(***************************************************************************)
(* Claims about the writers (under SpecWriter).                            *)
(***************************************************************************)
\* C18: each of the three sheet-name sanitizers returns at most 31 characters, none of
\* them one of \ / * ? : [ ].
C18_SheetNameIsValid ==
    (epc = "return" /\ call.fn \in {"analyzer", "merger", "api"}) =>
        /\ Len(ret.text) <= 31
        /\ \A i \in 1..Len(ret.text) :
              ret.text[i] \notin {"\\", "/", "*", "?", ":", "[", "]"}

\* the analyzer's sanitizer cuts a name of more than 31 characters that ends with a
\* forbidden character
C18_Witness ==
    /\ Returned("analyzer")
    /\ Len(call.texts[1]) > 31
    /\ call.texts[1][Len(call.texts[1])] = "]"
    /\ call.texts[1][1] = "["
    /\ Len(ret.text) = 31

\* the columns of the combined matching data of the call
CombinedColumns == concat_columns(call.conds, <<>>)

\* the position of the column in the list
PositionIn(l, c) == CHOOSE i \in 1..Len(l) : l[i] = c

\* C20: the columns of a rule sheet are a permutation of the combined data's columns:
\* the rule's columns that exist in the data come first, in the order the rule declares
\* them, then the remaining data columns in data order, none lost or repeated.
C20_SheetColumnOrder ==
    (Returned("write_analysis_results") /\ call.bools[1]) =>
        LET F == ret.text
            C == CombinedColumns
            R == call.texts
        IN  /\ Range(F) = Range(C)
            /\ Len(F) = Len(C)
            /\ \A i, j \in 1..Len(F) : i < j =>
                  /\ F[i] # F[j]
                  /\ F[j] \in Range(R) => F[i] \in Range(R)
                  /\ (F[i] \in Range(R) /\ F[j] \in Range(R))
                        => PositionIn(R, F[i]) < PositionIn(R, F[j])
                  /\ (F[i] \notin Range(R) /\ F[j] \notin Range(R))
                        => PositionIn(C, F[i]) < PositionIn(C, F[j])

\* the rule declares two data columns in the reverse of the data order, next to a
\* column the data does not have
C20_Witness ==
    /\ Returned("write_analysis_results")
    /\ call.bools[1]
    /\ Len(ret.text) >= 3
    /\ ret.text # CombinedColumns
    /\ ret.text[1] \in Range(call.texts)
    /\ ret.text[2] \in Range(call.texts)
    /\ ret.text[3] \notin Range(call.texts)
    /\ Len(call.conds) = 2

(***************************************************************************)
(* Claims about the API collector (under SpecCollect).                     *)
(***************************************************************************)
RECURSIVE FetchOrder(_)
\* the tweets of the pages, in the order they were fetched
FetchOrder(ps) == IF ps = <<>> THEN <<>> ELSE Head(ps).data \o FetchOrder(Tail(ps))

\* the positions of the fetch order whose id occurs at no earlier position
FirstFetched ==
    {i \in 1..Len(FetchOrder(pages)) :
        \A j \in 1..(i - 1) : FetchOrder(pages)[j].id # FetchOrder(pages)[i].id}

\* C19: the rows of collect_tweets hold no id twice, each row is the first tweet
\* fetched with its id, in fetch order, across languages and queries, and the
\* per-language counts add up to the number of rows.
C19_RowsAreFirstOccurrences ==
    cpc \in {"loop", "done"} =>
        /\ \A a, b \in 1..Len(rows) : a # b => rows[a].id # rows[b].id
        /\ Len(rows) = Cardinality(FirstFetched)
        /\ \A k \in 1..Len(rows) : rows[k] = FetchOrder(pages)[NthOf(FirstFetched, k)]
        /\ DictGet(count, "es") + DictGet(count, "en") = Len(rows)

\* collect_tweets returned rows of both languages, and an id kept under "es" came back
\* with another text under "en"
C19_Witness ==
    /\ cpc = "done"
    /\ DictGet(count, "es") >= 1
    /\ DictGet(count, "en") >= 1
    /\ \E i \in 1..Len(FetchOrder(pages)) : \E k \in 1..Len(rows) :
          /\ i \notin FirstFetched
          /\ FetchOrder(pages)[i].id = rows[k].id
          /\ FetchOrder(pages)[i].text # rows[k].text

(***************************************************************************)
(* Claims about empty texts in the string evaluator (under SpecEval).      *)
(***************************************************************************)
\* C27: a non-null cell whose normalized text is empty satisfies every non-empty list
\* of string patterns, and a list that holds an empty pattern is satisfied by every
\* non-null cell.
C27_EmptyTextAlwaysMatches ==
    (Returned("check_string_condition") /\ ~isna(call.cell)) =>
        /\ (normalize_text_for_comparison(call.cell) = <<>> /\ call.texts # <<>>) => ret.bool
        /\ (\E i \in 1..Len(call.texts) : call.texts[i] = <<>>) => ret.bool

\* the number 0 matched against the one pattern "a b"
C27_Witness ==
    /\ Returned("check_string_condition")
    /\ call.cell = IntValue(0)
    /\ call.texts = << <<"a", " ", "b">> >>
    /\ ret.bool

(***************************************************************************)
(* Claims about the rule compiler (under SpecCompile).                     *)
(***************************************************************************)
BucketNames == {"string", "numeric", "date", "boolean"}

Bucket(compiled, b) ==
    CASE b = "string" -> compiled.string_fields
      [] b = "numeric" -> compiled.numeric_fields
      [] b = "date" -> compiled.date_fields
      [] b = "boolean" -> compiled.boolean_fields

BucketsHolding(compiled, n) == {b \in BucketNames : n \in Keys(Bucket(compiled, b))}

\* C21: in every compiled rule each normalized column name is in exactly one of the
\* four buckets, also when two raw names of the rule normalize to the same name.
C21_ColumnInExactlyOneBucket ==
    pc = "compiled" =>
        \A r \in 1..Len(patterns) :
            LET compiled == DictGet(processed_patterns, patterns[r].key)
            IN  \A b \in BucketNames : \A n \in Keys(Bucket(compiled, b)) :
                    BucketsHolding(compiled, n) = {b}

\* an operator, then YYYY-MM-DD
OperatorThenDate(t) ==
    /\ Len(t) >= 11
    /\ t[1] \in {"<", ">", "="}
    /\ \A k \in 2..11 : IF k \in {6, 9} THEN t[k] = "-" ELSE t[k] \in Digits

\* an operator, then a digit
OperatorThenDigits(t) == Len(t) >= 2 /\ t[1] \in {"<", ">", "="} /\ t[2] \in Digits

\* the bucket the ordered decision gives a non-empty value list
ExpectedBucket(values) ==
    IF OperatorThenDate(str(values[1])) THEN "date"
    ELSE IF OperatorThenDigits(str(values[1])) THEN "numeric"
    ELSE IF \A k \in 1..Len(values) : values[k].kind = "bool" THEN "boolean"
    ELSE "string"

\* no later column of the rule is stored under the same name in the same bucket
LastOfItsName(pattern_data, i) ==
    \A j \in (i + 1)..Len(pattern_data) :
        ~ /\ pattern_data[j].value # <<>>
          /\ normalize_column_name(pattern_data[j].key) = normalize_column_name(pattern_data[i].key)
          /\ ExpectedBucket(pattern_data[j].value) = ExpectedBucket(pattern_data[i].value)

\* C22: a column with a non-empty value list is a date field if its first value starts
\* with an operator and YYYY-MM-DD, else a numeric field if it starts with an operator
\* and a digit, else a boolean field if every value is a boolean (stored verbatim), else
\* a string field of the cleaned values; a column with an empty list is in no bucket.
C22_OrderedClassification ==
    pc = "compiled" =>
        \A r \in 1..Len(patterns) :
            LET pattern_data == patterns[r].value
                compiled == DictGet(processed_patterns, patterns[r].key)
            IN  /\ \A i \in 1..Len(pattern_data) :
                      LET values == pattern_data[i].value
                          n == normalize_column_name(pattern_data[i].key)
                          b == ExpectedBucket(values)
                      IN  values # <<>> =>
                            /\ n \in Keys(Bucket(compiled, b))
                            /\ (b = "string" /\ LastOfItsName(pattern_data, i)) =>
                                  DictGet(compiled.string_fields, n)
                                      = [k \in 1..Len(values) |-> clean_pattern_text(values[k])]
                            /\ (b = "boolean" /\ LastOfItsName(pattern_data, i)) =>
                                  DictGet(compiled.boolean_fields, n)
                                      = [k \in 1..Len(values) |-> values[k].flag]
                /\ \A b \in BucketNames : \A n \in Keys(Bucket(compiled, b)) :
                      \E i \in 1..Len(pattern_data) :
                          /\ pattern_data[i].value # <<>>
                          /\ normalize_column_name(pattern_data[i].key) = n
                          /\ ExpectedBucket(pattern_data[i].value) = b

\* a date-shaped first value followed by a numeric one: the column is a date field only
C22_Witness ==
    /\ pc = "compiled"
    /\ patterns[1].value =
          <<Entry(T_N, <<StrValue(<<">">> \o D_2024_01_01), StrValue(<<">", "1">>)>>)>>
    /\ BucketsHolding(DictGet(processed_patterns, "r1"), T_n) = {"date"}

\* what one token of a numeric column compiles to
NumericToken(value) ==
    LET t == str(value)
        prefixed == Len(t) >= 2 /\ t[1] \in {"<", ">", "="}
        number == IF prefixed THEN ParseFloat(Tail(t)) ELSE float(value)
    IN  [ok |-> number.ok, operator |-> IF prefixed THEN t[1] ELSE "=", value |-> number.val]

\* what one token of a date column compiles to
DateToken(value) ==
    LET t == str(value)
        prefixed == Len(t) >= 2 /\ t[1] \in {"<", ">", "="}
        day == IF prefixed THEN strptime(Tail(t))
               ELSE IF value.kind = "str" THEN strptime(t)
               ELSE [ok |-> FALSE, value |-> Datetime(0, 0)]
    IN  [ok |-> day.ok, operator |-> IF prefixed THEN t[1] ELSE "=", value |-> day.value]

\* l is the list of the parseable tokens of values, in their order
IsParseableTokens(l, values, Token(_)) ==
    LET kept == {k \in 1..Len(values) : Token(values[k]).ok}
    IN  /\ Len(l) = Cardinality(kept)
        /\ \A k \in kept :
              LET pos == Cardinality({m \in kept : m <= k})
              IN  l[pos] = [operator |-> Token(values[k]).operator,
                            value |-> Token(values[k]).value]

\* C23: the compiled condition list of a numeric or date column is exactly its
\* parseable tokens in their original order, a token without an operator compiled
\* with '='; the column stays in its bucket even when every token was dropped.
C23_UnparseableTokensAreDropped ==
    pc = "compiled" =>
        \A r \in 1..Len(patterns) :
            LET pattern_data == patterns[r].value
                compiled == DictGet(processed_patterns, patterns[r].key)
            IN  \A i \in 1..Len(pattern_data) :
                    LET values == pattern_data[i].value
                        n == normalize_column_name(pattern_data[i].key)
                    IN  (values # <<>> /\ LastOfItsName(pattern_data, i)) =>
                          /\ ExpectedBucket(values) = "numeric" =>
                                /\ n \in Keys(compiled.numeric_fields)
                                /\ IsParseableTokens(DictGet(compiled.numeric_fields, n),
                                                     values, NumericToken)
                          /\ ExpectedBucket(values) = "date" =>
                                /\ n \in Keys(compiled.date_fields)
                                /\ IsParseableTokens(DictGet(compiled.date_fields, n),
                                                     values, DateToken)

\* ">1x" is dropped and "2" is kept with '='
C23_Witness ==
    /\ pc = "compiled"
    /\ patterns[1].value = <<Entry(T_N, <<StrValue(<<">", "1", "x">>), StrValue(<<"2">>)>>)>>
    /\ DictGet(DictGet(processed_patterns, "r1").numeric_fields, T_n)
          = <<[operator |-> "=", value |-> 2]>>

(***************************************************************************)
(* Claims about repeated runs (under SpecRuns).                            *)
(***************************************************************************)
\* C24: after any sequence of apply_patterns calls on one instance, the compiled-rule
\* cache (patterns_processed of get_summary) and the column mapping hold entries for
\* exactly the rule names of the most recent call.
C24_CacheHoldsLatestRulesOnly ==
    pc = "done" =>
        /\ Range(patterns_processed) = Keys(patterns)
        /\ Keys(column_mapping) = Keys(patterns)

(***************************************************************************)
(* Claims about the order of the pair evaluations (under SpecAnyOrder).    *)
(***************************************************************************)
\* a results dict as a mapping: the rule names, and the (rule, language, rows) slots
AsMapping(res) ==
    [names |-> Keys(res),
     slots |-> { <<res[i].key, res[i].value[j].key, res[i].value[j].value>> :
                   <<i, j>> \in { q \in (1..Len(res)) \X (1..Len(data)) :
                                    q[2] <= Len(res[q[1]].value) } }]

\* the slot of a pair in a results dict: its rows, or <<>> when the pair has no entry
Slot(res, pattern_name, language) ==
    IF pattern_name \in Keys(res) /\ language \in Keys(DictGet(res, pattern_name))
    THEN DictGet(DictGet(res, pattern_name), language)
    ELSE <<>>

RECURSIVE results_in_code_order(_, _, _)
\* the results of the loops as apply_patterns runs them: languages outside, rules inside
results_in_code_order(l, p, res) ==
    IF l > Len(data) THEN res
    ELSE IF p > Len(patterns) THEN results_in_code_order(l + 1, 1, res)
    ELSE results_in_code_order(l, p + 1,
            store_results(res, patterns[p].key, data[l].key,
                          pair_matching_rows(data[l].value, patterns[p].key, 1, <<>>)))

\* C25: the result of apply_patterns does not depend on the order in which the
\* (language, rule) pairs are evaluated: a pair's evaluation leaves the rows and the
\* compiled rules unchanged and writes no slot but its own, and when every pair is
\* done the result is, as a mapping, the one of the order of the code.
C25_PairOrderIsIrrelevant ==
    /\ [](pc = "done" =>
            AsMapping(results)
                = AsMapping(results_in_code_order(1, 1,
                      [i \in 1..Len(patterns) |-> Entry(patterns[i].key, <<>>)])))
    /\ [][pc = "pairs" =>
            /\ data' = data
            /\ processed_patterns' = processed_patterns
            /\ \A l \in 1..Len(data), p \in 1..Len(patterns) :
                  <<l, p>> # <<li', pi'>> =>
                      Slot(results', patterns[p].key, data[l].key)
                          = Slot(results, patterns[p].key, data[l].key)]_vars

\* every pair is done, the last one evaluated being the first one of the code's order,
\* and both languages have rows stored for the rule "r1"
C25_Witness ==
    /\ pc = "done"
    /\ pending = {}
    /\ <<li, pi>> = <<1, 1>>
    /\ Slot(results, "r1", "es") # <<>>
    /\ Slot(results, "r1", "en") # <<>>

(***************************************************************************)
(* Claims about the collector's quota, failures, backup and termination.   *)
(***************************************************************************)
\* C28: when collect_tweets returns, the count of every language is at most its
\* quota ceil(max_tweets / number of languages).
C28_CountWithinQuota ==
    cpc = "done" => \A i \in 1..Len(count) : count[i].value <= amount_tweets

\* C29: after a page request that failed with a network exception collect_tweets goes
\* on to return the rows and counts gathered so far; it is not left by an exception.
C29_FailedRequestKeepsRows ==
    (pages # <<>> /\ pages[Len(pages)] = NoResponse) => cpc \in {"loop", "done"}

\* C26: the backup written during a run of collect_tweets holds exactly the pages
\* passed to write_row_to_backup during that run, in call order.
C26_BackupHoldsThisRunsPages ==
    (cpc \in {"loop", "done", "raised"} /\ pages # <<>>) => backup = pages

\* C30: collect_tweets terminates for every sequence of well-formed API responses.
C30_CollectTerminates == <>(cpc = "done")

====
